---- MODULE Spec2Model ----
(***************************************************************************)
(* AntNet: the environment graph (server/graph.js), the game manager       *)
(* (server/game.js), the ant colony (AntColony) and the ant (Ant).         *)
(*                                                                         *)
(* Numbers.  A JavaScript number that can take a fractional value is an    *)
(* exact rational <<n, d>> in lowest terms with d > 0.  Hop counts, sizes  *)
(* and indexes are integers.  Infinity is a number above every hop count.  *)
(* A Euclidean distance is kept as its square; a score g + sqrt(h2) is the *)
(* record [g, h2] and two scores are compared exactly.                     *)
(***************************************************************************)
EXTENDS Integers, Sequences, FiniteSets, TLC

VARIABLES
  nodes,        \* Graph.nodes: id -> node record
  edges,        \* Graph.edges: id -> adjacency list
  pheromones,   \* Graph.pheromones (the server's field): key -> level
  players,      \* GameManager.players: id -> energy
  gameState,    \* GameManager.gameState: the snapshot sent to the clients
  ants,         \* AntColony.ants: sequence of ant records
  colonyPher,   \* AntColony.pheromones: key -> level
  resources,    \* AntColony.resources: kind -> count
  spawnTimer,   \* AntColony.spawnTimer
  params,       \* AntColony.params: maxAnts, initialAnts, antSpawnRate
  games,        \* the game registry of the server: gameId -> the keys of
                \* that GameManager's players
  sockets,      \* the sockets: id -> [connected, gameData]
  pc,           \* position of the running handler
  call,         \* the query or command that ran last, with its arguments
                \* and outcome; NoCall once the state a query was answered
                \* in has changed
  tick          \* the progress of time, [dt, idx, log, n].  In a colony tick:
                \* its deltaTime, the agent to update next, the steps taken
                \* and the number of the tick.  For a pheromone field alone:
                \* the size of the last decay step, the decay steps of that
                \* size since the last deposit (-1 once sizes were mixed)
                \* and the number of operations.

vars == <<nodes, edges, pheromones, players, gameState, ants, colonyPher,
          resources, spawnTimer, params, games, sockets, pc, call, tick>>

graphVars  == <<nodes, edges>>
serverVars == <<pheromones, players, gameState>>
colonyVars == <<ants, colonyPher, resources, spawnTimer, tick>>

----------------------------------------------------------------------------
(* Bounds of the model *)

MaxNodes == 3        \* nodes a graph is built from
MaxEdges == 3        \* edges a graph is built from
MaxAnts == 2         \* the largest options.maxAnts
InitialAnts == 1     \* options.initialAnts of the colony that is run tick by tick

----------------------------------------------------------------------------
(* Exact rationals *)

Abs(x) == IF x < 0 THEN -x ELSE x

\* Functions, so that their arguments are values when they are applied
GcdOf[a \in Nat, b \in Nat] == IF b = 0 THEN a ELSE GcdOf[b, a % b]

Gcd(a, b) == GcdOf[a, b]

Lowest[n \in Int, d \in Int] ==
  LET g == Gcd(Abs(n), Abs(d))
      s == IF d < 0 THEN -1 ELSE 1
  IN  <<(s * n) \div g, (s * d) \div g>>

Rat(n, d) == Lowest[n, d]

RInt(n) == <<n, 1>>
RAdd(a, b) == Rat(a[1] * b[2] + b[1] * a[2], a[2] * b[2])
RSub(a, b) == Rat(a[1] * b[2] - b[1] * a[2], a[2] * b[2])
RMul(a, b) == Rat(a[1] * b[1], a[2] * b[2])
RLess(a, b) == a[1] * b[2] < b[1] * a[2]
RLeq(a, b) == a[1] * b[2] <= b[1] * a[2]
RMin(a, b) == IF RLess(b, a) THEN b ELSE a
RDiv(a, b) == Rat(a[1] * b[2], a[2] * b[1])

RECURSIVE RPow(_, _)
RPow(a, n) == IF n = 0 THEN RInt(1) ELSE RMul(a, RPow(a, n - 1))

Range(s) == {s[i] : i \in 1..Len(s)}

----------------------------------------------------------------------------
(* Graph: server/graph.js *)

Infinity == 1000000

NodeIds == 1..MaxNodes

\* The node properties a caller passes to addNode.  An absent property is the
\* falsy value of its type ("" , <<>>, 0), which `||` replaces by the default.
NodeSpecs ==
  { [type |-> "NEST", position |-> <<>>,         size |-> 2, capacity |-> 20, resources |-> 0],
    [type |-> "",     position |-> <<10, 0, 0>>, size |-> 0, capacity |-> 0,  resources |-> 0] }

\* generateId: an identifier no node has yet
FreshIds == NodeIds \ DOMAIN nodes

NewNode(id, d) ==
  [ id             |-> id,
    type           |-> IF d.type = "" THEN "NORMAL" ELSE d.type,
    position       |-> IF d.position = <<>> THEN <<0, 0, 0>> ELSE d.position,
    size           |-> IF d.size = 0 THEN 1 ELSE d.size,
    capacity       |-> IF d.capacity = 0 THEN RInt(10) ELSE RInt(d.capacity),
    resources      |-> RInt(d.resources),
    distanceToNest |-> Infinity,
    boosted        |-> FALSE,
    disrupted      |-> FALSE,
    boostTimer     |-> RInt(0),
    disruptTimer   |-> RInt(0),
    resourceTimer  |-> RInt(0),    \* set by updateNodes; read as (resourceTimer || 0)
    boostPlayerId  |-> "",         \* set by boostNode; undefined until then
    disruptPlayerId |-> "" ]       \* set by disruptNode; undefined until then

Put(f, k, v) == [x \in DOMAIN f \cup {k} |-> IF x = k THEN v ELSE f[x]]

hasEdge(es, a, b) == a \in DOMAIN es /\ b \in Range(es[a])

getNeighbors(es, id) == IF id \in DOMAIN es THEN es[id] ELSE <<>>

\* An addEdge that does not look for the edge before it inserts
addEdgeListsUnchecked(ns, es, a, b) ==
  IF a \notin DOMAIN ns \/ b \notin DOMAIN ns THEN es
  ELSE LET e1 == [es EXCEPT ![a] = Append(@, b)]
       IN  [e1 EXCEPT ![b] = Append(@, a)]

\* addEdge: the adjacency lists after the call
addEdgeLists(ns, es, a, b) ==
  IF a \notin DOMAIN ns \/ b \notin DOMAIN ns THEN es
  ELSE IF hasEdge(es, a, b) THEN es
  ELSE LET e1 == [es EXCEPT ![a] = Append(@, b)]
       IN  [e1 EXCEPT ![b] = Append(@, a)]

\* addEdge: the value returned
addEdgeResult(ns, a, b) == a \in DOMAIN ns /\ b \in DOMAIN ns

\* A calculateDistances that keeps the distances of the previous run
KeepDistances(ns) == ns

\* calculateDistances, lines 136-138: every distance back to Infinity
ResetDistances(ns) ==
  [id \in DOMAIN ns |-> [ns[id] EXCEPT !.distanceToNest = Infinity]]

\* calculateDistances, lines 141-143
SeedTarget(ns, t) ==
  IF t \in DOMAIN ns THEN [ns EXCEPT ![t].distanceToNest = 0] ELSE ns

\* calculateDistances, lines 158-172: the loop over the neighbours of the
\* node taken from the queue; yields the node table and the queue
RECURSIVE RelaxNeighbors(_, _, _, _, _, _)
RelaxNeighbors(ns, queue, nbrs, i, currentDistance, visited) ==
  IF i > Len(nbrs) THEN [ns |-> ns, queue |-> queue]
  ELSE
    LET neighborId == nbrs[i]
        newDistance == currentDistance + 1
    IN  IF neighborId \in visited
          THEN RelaxNeighbors(ns, queue, nbrs, i + 1, currentDistance, visited)
        ELSE IF newDistance < ns[neighborId].distanceToNest
          THEN RelaxNeighbors([ns EXCEPT ![neighborId].distanceToNest = newDistance],
                              Append(queue, neighborId), nbrs, i + 1,
                              currentDistance, visited)
        ELSE RelaxNeighbors(ns, queue, nbrs, i + 1, currentDistance, visited)

\* calculateDistances, lines 149-173: the queue loop (the target is a node)
RECURSIVE DistanceLoop(_, _, _, _)
DistanceLoop(ns, es, queue, visited) ==
  IF queue = <<>> THEN ns
  ELSE
    LET currentId == Head(queue)
        rest == Tail(queue)
    IN  IF currentId \in visited THEN DistanceLoop(ns, es, rest, visited)
        ELSE
          LET vis == visited \cup {currentId}
              r == RelaxNeighbors(ns, rest, getNeighbors(es, currentId), 1,
                                  ns[currentId].distanceToNest, vis)
          IN  DistanceLoop(r.ns, es, r.queue, vis)

\* calculateDistances(targetNodeId): the node table it leaves and whether it
\* threw.  With an unknown target the reset has run and line 155 reads a
\* property of undefined, a TypeError.
calculateDistances(ns, es, t) ==
  LET seeded == SeedTarget(ResetDistances(ns), t)
  IN  IF t \in DOMAIN ns
        THEN [nodes |-> DistanceLoop(seeded, es, <<t>>, {}), threw |-> FALSE]
        ELSE [nodes |-> seeded, threw |-> TRUE]

\* heuristic, lines 289-298: the square of the Euclidean distance
heuristic2(ns, a, b) ==
  LET p == ns[a].position
      q == ns[b].position
  IN  (p[1] - q[1]) * (p[1] - q[1]) + (p[2] - q[2]) * (p[2] - q[2])
        + (p[3] - q[3]) * (p[3] - q[3])

\* sqrt(a) < k + sqrt(b) for integers a, b >= 0 and k >= 0
SqrtLessPlus(a, k, b) ==
  LET m == a - k * k - b
  IN  IF m < 0 THEN TRUE
      ELSE IF k = 0 THEN FALSE
      ELSE m * m < 4 * k * k * b

\* sqrt(a) + j < sqrt(b) for integers a, b >= 0 and j > 0
SqrtPlusLess(a, j, b) ==
  LET m == b - j * j - a
  IN  m > 0 /\ m * m > 4 * j * j * a

\* f1 < f2 where a score f is g + sqrt(h2), line 237
FLess(f1, f2) ==
  IF f2.g >= f1.g THEN SqrtLessPlus(f1.h2, f2.g - f1.g, f2.h2)
  ELSE SqrtPlusLess(f1.h2, f1.g - f2.g, f2.h2)

\* findPath, lines 231-242: the index of the first open node of lowest fScore
RECURSIVE LowestFrom(_, _, _, _)
LowestFrom(openSet, fScore, i, lowestIndex) ==
  IF i > Len(openSet) THEN lowestIndex
  ELSE IF FLess(fScore[openSet[i]], fScore[openSet[lowestIndex]])
    THEN LowestFrom(openSet, fScore, i + 1, i)
  ELSE LowestFrom(openSet, fScore, i + 1, lowestIndex)

\* splice(index, 1)
RemoveAt(s, i) == [k \in 1..(Len(s) - 1) |-> IF k < i THEN s[k] ELSE s[k + 1]]

\* !gScore[id], line 264: true of an absent score and of the score 0
NoScore(gScore, id) == id \notin DOMAIN gScore \/ gScore[id] = 0

\* findPath, lines 255-275: the loop over the neighbours of current
RECURSIVE ExpandNeighbors(_, _, _, _, _, _)
ExpandNeighbors(ns, nbrs, i, current, endNodeId, s) ==
  IF i > Len(nbrs) THEN s
  ELSE
    LET neighborId == nbrs[i]
        tentativeGScore == s.gScore[current] + 1
    IN  IF ns[neighborId].disrupted
          THEN ExpandNeighbors(ns, nbrs, i + 1, current, endNodeId, s)
        ELSE IF NoScore(s.gScore, neighborId) \/ tentativeGScore < s.gScore[neighborId]
          THEN ExpandNeighbors(ns, nbrs, i + 1, current, endNodeId,
                 [ cameFrom |-> Put(s.cameFrom, neighborId, current),
                   gScore   |-> Put(s.gScore, neighborId, tentativeGScore),
                   fScore   |-> Put(s.fScore, neighborId,
                                    [g |-> tentativeGScore,
                                     h2 |-> heuristic2(ns, neighborId, endNodeId)]),
                   openSet  |-> IF neighborId \in Range(s.openSet) THEN s.openSet
                                ELSE Append(s.openSet, neighborId) ])
        ELSE ExpandNeighbors(ns, nbrs, i + 1, current, endNodeId, s)

\* reconstructPath, lines 306-315.  The loop follows cameFrom from a node to
\* its predecessor; it ends at a node with no predecessor, and once it comes
\* back to a node it has passed it repeats the same steps for ever.
RECURSIVE reconstructPath(_, _, _)
reconstructPath(cameFrom, current, pathSoFar) ==
  IF current \notin DOMAIN cameFrom
    THEN [outcome |-> "returned", path |-> pathSoFar]
  ELSE IF cameFrom[current] \in Range(pathSoFar)
    THEN [outcome |-> "diverged", path |-> <<cameFrom[current]>> \o pathSoFar]
  ELSE reconstructPath(cameFrom, cameFrom[current], <<cameFrom[current]>> \o pathSoFar)

\* findPath, lines 229-279: the loop over the open set
RECURSIVE PathLoop(_, _, _, _)
PathLoop(ns, es, endNodeId, s) ==
  IF s.openSet = <<>> THEN [outcome |-> "returned", path |-> <<>>]
  ELSE
    LET lowestIndex == LowestFrom(s.openSet, s.fScore, 2, 1)
        current == s.openSet[lowestIndex]
        taken == [s EXCEPT !.openSet = RemoveAt(s.openSet, lowestIndex)]
    IN  IF current = endNodeId
          THEN reconstructPath(s.cameFrom, current, <<current>>)
        ELSE PathLoop(ns, es, endNodeId,
               ExpandNeighbors(ns, getNeighbors(es, current), 1, current,
                               endNodeId, taken))

\* findPath(startNodeId, endNodeId): the outcome ("returned", "diverged" or
\* "threw") and the sequence.  With an unknown start or end, line 227 reads
\* the position of undefined, a TypeError.
findPath(ns, es, startNodeId, endNodeId) ==
  IF startNodeId \notin DOMAIN ns \/ endNodeId \notin DOMAIN ns
    THEN [outcome |-> "threw", path |-> <<>>]
  ELSE PathLoop(ns, es, endNodeId,
         [ openSet  |-> <<startNodeId>>,
           cameFrom |-> <<>>,
           gScore   |-> (startNodeId :> 0),
           fScore   |-> (startNodeId :> [g |-> 0,
                           h2 |-> heuristic2(ns, startNodeId, endNodeId)]) ])

----------------------------------------------------------------------------
(* GameManager: server/game.js *)

PlayerIds == {"p1"}

NoCall == [op |-> "none", args |-> <<>>, result |-> "none"]

NoTick == [dt |-> RInt(0), idx |-> 0, log |-> <<>>, n |-> 0]

\* AntColony.params, lines 32-42, of the colony that is run tick by tick
DefaultParams ==
  [maxAnts |-> MaxAnts, initialAnts |-> InitialAnts, antSpawnRate |-> Rat(1, 10)]

\* addPlayer, lines 167-180: a new player has energy 100
StartEnergy == RInt(100)

DisruptCost == RInt(40)

\* A disruptNode that accepts a nest as well
disruptAcceptedAnywhere(ps, ns, playerId, nodeId) ==
  /\ playerId \in DOMAIN ps
  /\ nodeId \in DOMAIN ns
  /\ ~ns[nodeId].disrupted
  /\ ~RLess(ps[playerId], DisruptCost)

\* disruptNode, lines 460-488: whether the command is carried out
disruptAccepted(ps, ns, playerId, nodeId) ==
  /\ playerId \in DOMAIN ps
  /\ nodeId \in DOMAIN ns
  /\ ns[nodeId].type # "NEST"
  /\ ~ns[nodeId].disrupted
  /\ ~RLess(ps[playerId], DisruptCost)

\* disruptNode, lines 460-488: the result, the nodes and the players after it
disruptNode(ps, ns, playerId, nodeId) ==
  IF disruptAccepted(ps, ns, playerId, nodeId)
    THEN [result  |-> "true",
          players |-> [ps EXCEPT ![playerId] = RSub(@, DisruptCost)],
          nodes   |-> [ns EXCEPT ![nodeId].disrupted = TRUE,
                                 ![nodeId].disruptTimer = RInt(20),
                                 ![nodeId].disruptPlayerId = playerId]]
  ELSE [result |-> "false", players |-> ps, nodes |-> ns]

BoostCost == RInt(30)

\* A boostNode that accepts a node already boosted
boostAcceptedAgain(ps, ns, playerId, nodeId) ==
  /\ playerId \in DOMAIN ps
  /\ nodeId \in DOMAIN ns
  /\ ~RLess(ps[playerId], BoostCost)

\* boostNode, lines 427-441: whether the command is carried out
boostAccepted(ps, ns, playerId, nodeId) ==
  /\ playerId \in DOMAIN ps
  /\ nodeId \in DOMAIN ns
  /\ ~ns[nodeId].boosted
  /\ ~RLess(ps[playerId], BoostCost)

\* boostNode, lines 427-452: the result, the nodes and the players after it
boostNode(ps, ns, playerId, nodeId) ==
  IF boostAccepted(ps, ns, playerId, nodeId)
    THEN [result  |-> "true",
          players |-> [ps EXCEPT ![playerId] = RSub(@, BoostCost)],
          nodes   |-> [ns EXCEPT ![nodeId].boosted = TRUE,
                                 ![nodeId].boostTimer = RInt(30),
                                 ![nodeId].boostPlayerId = playerId]]
  ELSE [result |-> "false", players |-> ps, nodes |-> ns]

ExpandCost == RInt(50)

\* The largest size: a node of this size is not expanded (line 504)
MaxSize == 3

\* An expandNode that accepts a node of any size
expandAcceptedAnySize(ps, ns, playerId, nodeId) ==
  /\ playerId \in DOMAIN ps
  /\ nodeId \in DOMAIN ns
  /\ ~RLess(ps[playerId], ExpandCost)

\* expandNode, lines 496-510: whether the command is carried out
expandAccepted(ps, ns, playerId, nodeId) ==
  /\ playerId \in DOMAIN ps
  /\ nodeId \in DOMAIN ns
  /\ ~(ns[nodeId].size >= MaxSize)
  /\ ~RLess(ps[playerId], ExpandCost)

\* An expandNode that takes the energy before it looks at the node's size
expandNodeChargesFirst(ps, ns, playerId, nodeId) ==
  IF expandAccepted(ps, ns, playerId, nodeId)
    THEN [result  |-> "true",
          players |-> [ps EXCEPT ![playerId] = RSub(@, ExpandCost)],
          nodes   |-> [ns EXCEPT ![nodeId].size = @ + 1,
                                 ![nodeId].capacity = RMul(@, Rat(3, 2))]]
  ELSE IF playerId \in DOMAIN ps /\ nodeId \in DOMAIN ns /\ ~RLess(ps[playerId], ExpandCost)
    THEN [result |-> "false", players |-> [ps EXCEPT ![playerId] = RSub(@, ExpandCost)], nodes |-> ns]
  ELSE [result |-> "false", players |-> ps, nodes |-> ns]

\* expandNode, lines 496-520: the result, the nodes and the players after it
expandNode(ps, ns, playerId, nodeId) ==
  IF expandAccepted(ps, ns, playerId, nodeId)
    THEN [result  |-> "true",
          players |-> [ps EXCEPT ![playerId] = RSub(@, ExpandCost)],
          nodes   |-> [ns EXCEPT ![nodeId].size = @ + 1,
                                 ![nodeId].capacity = RMul(@, Rat(3, 2))]]
  ELSE [result |-> "false", players |-> ps, nodes |-> ns]

\* The least level an entry keeps: a decayed entry below it is deleted
\* (game.js line 269, AntColony line 189)
Negligible == Rat(1, 100)

\* The ceiling of a level (game.js line 408, AntColony line 210)
MaxLevel == RInt(5)

\* The server's decay rate per second, line 266
ServerDecayRate == Rat(1, 10)

PheromoneTypes == {"FOOD", "EXPLORATION"}

\* The key `${from},${to},${type}` of an entry
Key(from, to, type) == <<from, to, type>>

\* An updatePheromones that never deletes an entry
DecayFieldKeepAll(field, rate, dt) ==
  [k \in DOMAIN field |->
     [field[k] EXCEPT !.level = RMul(@, RSub(RInt(1), RMul(rate, dt)))]]

\* An updatePheromones that deletes only the entries that fell to 0 or below
DecayFieldDropsSpent(field, rate, dt) ==
  LET factor == RSub(RInt(1), RMul(rate, dt))
      scaled == [k \in DOMAIN field |->
                   [field[k] EXCEPT !.level = RMul(@, factor)]]
      kept == {k \in DOMAIN field : RLess(RInt(0), scaled[k].level)}
  IN  [k \in kept |-> scaled[k]]

\* updatePheromones (game.js lines 262-273, AntColony lines 183-193): every
\* level is multiplied by 1 - rate * dt; an entry then below 0.01 is deleted
DecayField(field, rate, dt) ==
  LET factor == RSub(RInt(1), RMul(rate, dt))
      scaled == [k \in DOMAIN field |->
                   [field[k] EXCEPT !.level = RMul(@, factor)]]
      kept == {k \in DOMAIN field : ~RLess(scaled[k].level, Negligible)}
  IN  [k \in kept |-> scaled[k]]

\* An updateNodes that zeroes a run-down timer and leaves the flag set
UpdateNodeKeepsFlag(node, dt) ==
  LET bt == RSub(node.boostTimer, dt)
      n1 == IF ~node.boosted THEN node
            ELSE IF RLeq(bt, RInt(0)) THEN [node EXCEPT !.boostTimer = RInt(0)]
            ELSE [node EXCEPT !.boostTimer = bt]
      dtm == RSub(n1.disruptTimer, dt)
  IN  IF ~n1.disrupted THEN n1
      ELSE IF RLeq(dtm, RInt(0)) THEN [n1 EXCEPT !.disruptTimer = RInt(0)]
      ELSE [n1 EXCEPT !.disruptTimer = dtm]

\* updateNodes, lines 279-310, for one node
UpdateNode(node, dt) ==
  LET bt == RSub(node.boostTimer, dt)
      n1 == IF ~node.boosted THEN node
            ELSE IF RLeq(bt, RInt(0))
              THEN [node EXCEPT !.boosted = FALSE, !.boostTimer = RInt(0)]
            ELSE [node EXCEPT !.boostTimer = bt]
      dtm == RSub(n1.disruptTimer, dt)
      n2 == IF ~n1.disrupted THEN n1
            ELSE IF RLeq(dtm, RInt(0))
              THEN [n1 EXCEPT !.disrupted = FALSE, !.disruptTimer = RInt(0)]
            ELSE [n1 EXCEPT !.disruptTimer = dtm]
      rt == RAdd(n2.resourceTimer, dt)
  IN  IF n2.type = "FOOD_SOURCE" /\ RLess(n2.resources, n2.capacity)
        THEN IF ~RLess(rt, RInt(5))
               THEN [n2 EXCEPT !.resourceTimer = RInt(0),
                               !.resources = RMin(RAdd(@, RInt(1)), n2.capacity)]
             ELSE [n2 EXCEPT !.resourceTimer = rt]
      ELSE n2

\* updatePlayers, lines 316-324: energy regenerates by 2 per second up to 100
UpdatePlayers(ps, dt) ==
  [p \in DOMAIN ps |-> RMin(RAdd(ps[p], RMul(RInt(2), dt)), RInt(100))]

\* updateGameState, lines 329-362: copies of the node records, the entries
\* above 0.01, and the players (by reference: their energy is read live)
Snapshot(ns, field, ps) ==
  [ nodes      |-> ns,
    pheromones |-> {[key |-> k, level |-> field[k].level, playerId |-> field[k].playerId] :
                      k \in {x \in DOMAIN field : RLess(Negligible, field[x].level)}},
    players    |-> DOMAIN ps ]

\* placePheromone, lines 381-398: whether the command is carried out
placeAccepted(ps, es, playerId, from, to, amount) ==
  /\ playerId \in DOMAIN ps
  /\ hasEdge(es, from, to)
  /\ ~RLess(ps[playerId], RMul(amount, RInt(5)))

LevelOf(field, k) == IF k \in DOMAIN field THEN field[k].level ELSE RInt(0)

\* placePheromone, lines 400-416: the field after the two entries are written.
\* Both entries are read before either is written; when the two keys are one
\* key of a stored entry, both updates fall on the same object.
placeField(field, playerId, from, to, type, amount) ==
  LET key == Key(from, to, type)
      reverseKey == Key(to, from, type)
      current == RMin(RAdd(LevelOf(field, key), amount), MaxLevel)
      half == RMul(amount, Rat(1, 2))
      reverseCurrent ==
        IF key = reverseKey /\ key \in DOMAIN field
          THEN RMin(RAdd(current, half), MaxLevel)
        ELSE RMin(RAdd(LevelOf(field, reverseKey), half), MaxLevel)
      f1 == Put(field, key, [level |-> current, playerId |-> playerId])
  IN  Put(f1, reverseKey, [level |-> reverseCurrent, playerId |-> playerId])

----------------------------------------------------------------------------
(* AntColony *)

\* params.pheromoneDecayRate, line 34
ColonyDecayRate == Rat(1, 20)

\* A depositPheromone that raises both directions by the whole amount
depositFieldSymmetric(field, from, to, type, amount) ==
  LET f1 == Put(field, Key(from, to, type),
                [level |-> RMin(RAdd(LevelOf(field, Key(from, to, type)), amount), MaxLevel)])
  IN  Put(f1, Key(to, from, type),
          [level |-> RMin(RAdd(LevelOf(f1, Key(to, from, type)), amount), MaxLevel)])

\* depositPheromone, lines 202-219: the entry is written, then the reverse
\* entry is read, raised by half the amount and written
depositField(field, from, to, type, amount) ==
  LET key == Key(from, to, type)
      reverseKey == Key(to, from, type)
      f1 == Put(field, key,
                [level |-> RMin(RAdd(LevelOf(field, key), amount), MaxLevel)])
  IN  Put(f1, reverseKey,
          [level |-> RMin(RAdd(LevelOf(f1, reverseKey), RMul(amount, Rat(1, 2))),
                          MaxLevel)])

\* getPheromoneLevel, lines 228-232
getPheromoneLevel(field, from, to, type) == LevelOf(field, Key(from, to, type))

----------------------------------------------------------------------------
(* Operations on the graph.  The environment is set up (pc = "setup") and   *)
(* then used (pc = "running").                                              *)

\* The number of edges: each addEdge that inserts adds two adjacency entries
RECURSIVE Entries(_, _)
Entries(es, ids) ==
  IF ids = {} THEN 0
  ELSE LET n == CHOOSE x \in ids : TRUE
       IN  Len(es[n]) + Entries(es, ids \ {n})

EdgeCount(es) == Entries(es, DOMAIN es) \div 2

AddNode(d) ==
  /\ pc = "setup"
  /\ FreshIds # {}
  /\ LET id == CHOOSE x \in FreshIds : \A y \in FreshIds : x <= y
     IN  /\ nodes' = Put(nodes, id, NewNode(id, d))
         /\ edges' = Put(edges, id, <<>>)
  /\ UNCHANGED <<serverVars, colonyVars, pc, call, params, games, sockets>>

AddEdge(a, b) ==
  /\ pc = "setup"
  /\ EdgeCount(addEdgeLists(nodes, edges, a, b)) <= MaxEdges
  /\ edges' = addEdgeLists(nodes, edges, a, b)
  /\ UNCHANGED <<nodes, serverVars, colonyVars, pc, call, params, games, sockets>>

\* The environment is populated: the simulation starts
StartGame ==
  /\ pc = "setup"
  /\ pc' = "running"
  /\ call' = NoCall
  /\ gameState' = Snapshot(nodes, pheromones, players)
  /\ UNCHANGED <<nodes, edges, pheromones, players, colonyVars, params, games, sockets>>

DisruptNode(playerId, nodeId) ==
  /\ pc = "running"
  /\ IF disruptAccepted(players, nodes, playerId, nodeId)
       THEN /\ players' = [players EXCEPT ![playerId] = RSub(@, DisruptCost)]
            /\ nodes' = [nodes EXCEPT ![nodeId].disrupted = TRUE,
                                      ![nodeId].disruptTimer = RInt(20),
                                      ![nodeId].disruptPlayerId = playerId]
       ELSE UNCHANGED <<players, nodes>>
  /\ call' = NoCall
  /\ UNCHANGED <<edges, pheromones, gameState, colonyVars, pc, params, games, sockets>>

CalculateDistances(t) ==
  /\ pc = "running"
  /\ \E r \in {calculateDistances(nodes, edges, t)} :
       /\ nodes' = r.nodes
       /\ call' = [op |-> "calculateDistances", args |-> <<t>>,
                   result |-> IF r.threw THEN "threw" ELSE "returned"]
  /\ UNCHANGED <<edges, serverVars, colonyVars, pc, params, games, sockets>>

FindPath(startNodeId, endNodeId) ==
  /\ pc = "running"
  /\ call' = [op |-> "findPath", args |-> <<startNodeId, endNodeId>>,
              result |-> findPath(nodes, edges, startNodeId, endNodeId)]
  /\ UNCHANGED <<nodes, edges, serverVars, colonyVars, pc, params, games, sockets>>

InitGraph ==
  /\ nodes = <<>>
  /\ edges = <<>>
  /\ pheromones = <<>>
  /\ players = [p \in PlayerIds |-> StartEnergy]
  /\ gameState = [nodes |-> <<>>, pheromones |-> {}, players |-> {}]
  /\ ants = <<>>
  /\ colonyPher = <<>>
  /\ resources = [FOOD |-> 0]
  /\ spawnTimer = RInt(0)
  /\ params = DefaultParams
  /\ games = <<>>
  /\ sockets = <<>>
  /\ pc = "setup"
  /\ call = NoCall
  /\ tick = NoTick

\* Distances: the graph is set up, nodes are disrupted, distances computed.
\* calculateDistances reads no type and no position: nodes are added with
\* the default properties.
NextDist ==
  \/ \E d \in {x \in NodeSpecs : x.type = ""} : AddNode(d)
  \/ \E a, b \in NodeIds : AddEdge(a, b)
  \/ StartGame
  \/ \E p \in PlayerIds, n \in NodeIds : DisruptNode(p, n)
  \/ \E t \in NodeIds : CalculateDistances(t)

SpecDist == InitGraph /\ [][NextDist]_vars

\* Paths: the graph is set up, nodes are disrupted, paths are searched
NextPath ==
  \/ \E d \in NodeSpecs : AddNode(d)
  \/ \E a, b \in NodeIds : AddEdge(a, b)
  \/ StartGame
  \/ \E p \in PlayerIds, n \in NodeIds : DisruptNode(p, n)
  \/ \E a, b \in NodeIds : FindPath(a, b)

SpecPath == InitGraph /\ [][NextPath]_vars

\* Edges: nodes are added and addEdge is called on every pair of identifiers,
\* known or not, distinct or not
MaxEdgeCalls == 3

\* Graph.addEdge, with the call and the value returned on record
AddEdgeCall(a, b) ==
  /\ pc = "setup"
  /\ tick.n < MaxEdgeCalls
  /\ edges' = addEdgeLists(nodes, edges, a, b)
  /\ call' = [op |-> "addEdge", args |-> <<a, b>>,
              result |-> IF addEdgeResult(nodes, a, b) THEN "true" ELSE "false"]
  /\ tick' = [tick EXCEPT !.n = @ + 1, !.log = Append(@, <<"addEdge", a, b>>)]
  /\ UNCHANGED <<nodes, serverVars, ants, colonyPher, resources, spawnTimer, pc, params, games, sockets>>

NextEdges ==
  \/ \E d \in {x \in NodeSpecs : x.type = ""} : AddNode(d)
  \/ \E a, b \in NodeIds : AddEdgeCall(a, b)

SpecEdges == InitGraph /\ [][NextEdges]_vars

\* addNode with an identifier supplied by the caller (nodeData.id, line 18):
\* the node record and the adjacency list of that identifier are assigned,
\* whether or not the identifier is in use (lines 20-34)
AddNodeWithId(id, d) ==
  /\ pc = "setup"
  /\ nodes' = Put(nodes, id, NewNode(id, d))
  /\ edges' = Put(edges, id, <<>>)
  /\ call' = [op |-> "addNode", args |-> <<id>>, result |-> id]
  /\ UNCHANGED <<serverVars, colonyVars, pc, params, games, sockets>>

\* Graphs built by addNode, with and without an identifier, and addEdge
NextNodes ==
  \/ \E d \in NodeSpecs : AddNode(d)
  \/ \E id \in NodeIds, d \in NodeSpecs : AddNodeWithId(id, d)
  \/ \E a, b \in NodeIds : AddEdge(a, b)

SpecNodes == InitGraph /\ [][NextNodes]_vars

----------------------------------------------------------------------------
(* Hop distance, defined from the adjacency relation alone *)

Linked(es, a, b) == hasEdge(es, a, b) \/ hasEdge(es, b, a)

\* The nodes exactly k hops from t are the front; the nodes nearer are seen.
\* Yields the hop count of every node connected to t.
RECURSIVE HopLayers(_, _, _, _)
HopLayers(es, seen, front, k) ==
  IF front = {} THEN <<>>
  ELSE LET next == {n \in (DOMAIN es) \ seen : \E m \in front : Linked(es, m, n)}
       IN  [n \in front |-> k] @@ HopLayers(es, seen \cup next, next, k + 1)

HopMap(es, t) == HopLayers(es, {t}, {t}, 0)

HopDistance(es, n, t) ==
  LET h == HopMap(es, t) IN IF n \in DOMAIN h THEN h[n] ELSE Infinity

\* s is a walk of the graph: consecutive nodes are joined by an edge
IsWalk(es, s) == \A i \in 1..(Len(s) - 1) : hasEdge(es, s[i], s[i + 1])

----------------------------------------------------------------------------
(* Claims on calculateDistances (SpecDist) *)

DistancesRan ==
  /\ call.op = "calculateDistances"
  /\ call.args[1] \in DOMAIN nodes

\* C1: after calculateDistances(T) on an existing target T, every node has
\* distanceToNest equal to its shortest hop distance to T: 0 for T itself,
\* L for a node L hops away, Infinity for a node not connected to T; the
\* disrupted flags play no part.
C1_DistancesAreHopCounts ==
  DistancesRan =>
    /\ call.result = "returned"
    /\ LET h == HopMap(edges, call.args[1])
       IN  \A n \in DOMAIN nodes :
             nodes[n].distanceToNest = IF n \in DOMAIN h THEN h[n] ELSE Infinity

\* C1 witness: distances were computed on a graph where a node lies two hops
\* from the target behind a disrupted node, and another run came before
C1_Witness ==
  /\ DistancesRan
  /\ \E n, m \in DOMAIN nodes :
       /\ nodes[n].distanceToNest = 2
       /\ nodes[m].distanceToNest = 1
       /\ nodes[m].disrupted
       /\ hasEdge(edges, n, m)

----------------------------------------------------------------------------
(* Claims on findPath (SpecPath) *)

PathSearched ==
  /\ call.op = "findPath"
  /\ call.args[1] \in DOMAIN nodes
  /\ call.args[2] \in DOMAIN nodes

NoSelfEdge == \A n \in DOMAIN edges : ~hasEdge(edges, n, n)

\* C2: findPath(start, end) terminates for every pair of existing nodes and
\* returns the node sequence from start to end or the empty sequence, also
\* when the shortest path has two or more hops.  (Stated for the graphs in
\* which no node is its own neighbour.)
C2_FindPathTerminates ==
  (PathSearched /\ NoSelfEdge) =>
    /\ call.result.outcome = "returned"
    /\ \/ call.result.path = <<>>
       \/ /\ Head(call.result.path) = call.args[1]
          /\ call.result.path[Len(call.result.path)] = call.args[2]

\* C3: with no disrupted node, for connected start and end, findPath returns
\* a sequence from start to end along edges whose number of hops is the
\* shortest hop distance between them.  (Stated for the graphs in which no
\* node is its own neighbour.)
C3_FindPathShortest ==
  ( /\ PathSearched
    /\ NoSelfEdge
    /\ \A n \in DOMAIN nodes : ~nodes[n].disrupted
    /\ HopDistance(edges, call.args[1], call.args[2]) < Infinity )
  =>
    /\ call.result.outcome = "returned"
    /\ call.result.path # <<>>
    /\ Head(call.result.path) = call.args[1]
    /\ call.result.path[Len(call.result.path)] = call.args[2]
    /\ IsWalk(edges, call.result.path)
    /\ Len(call.result.path) - 1 = HopDistance(edges, call.args[1], call.args[2])

\* C4: the sequence findPath returns holds no disrupted node, the start and
\* the end included.  (Stated for a start and an end that differ.)
C4_PathAvoidsDisrupted ==
  (PathSearched /\ call.result.outcome = "returned"
     /\ call.args[1] # call.args[2]) =>
    \A i \in 1..Len(call.result.path) : ~nodes[call.result.path[i]].disrupted

----------------------------------------------------------------------------
(* The pheromone fields: the server's (GameManager.graph.pheromones, written
   by placePheromone) and the colony's (AntColony.pheromones, written by
   depositPheromone); each is decayed by its own updatePheromones. *)

\* The commands and updates of one run of the server's field, and the
\* deposits and decays of one run of the colony's
MaxServerOps == 3
MaxColonyOps == 4

\* The seconds between two updates
DeltaTimes == {RInt(5), RInt(10)}

\* The amounts a player sends with place_pheromone
PlayerAmounts == {RInt(-1), RInt(1), RInt(6)}

\* The amounts an agent deposits (ant.js lines 160 and 165-168)
AntAmounts == {Rat(1, 10), Rat(1, 2)}

RECURSIVE BuildEdges(_, _, _)
BuildEdges(ns, es, pairs) ==
  IF pairs = <<>> THEN es
  ELSE BuildEdges(ns, addEdgeLists(ns, es, pairs[1][1], pairs[1][2]), Tail(pairs))

\* A nest linked to one food source
FieldNodes ==
  <<NewNode(1, [type |-> "NEST", position |-> <<>>, size |-> 2, capacity |-> 20, resources |-> 0]),
    NewNode(2, [type |-> "FOOD_SOURCE", position |-> <<10, 0, 0>>, size |-> 0, capacity |-> 2, resources |-> 2])>>

\* The identifiers of the field's nodes and one that names no node
FieldIds == DOMAIN FieldNodes \cup {Len(FieldNodes) + 1}

\* A trail at the ceiling in both directions, as a returning agent leaves it
\* after depositing on every transit tick
SaturatedTrail ==
  [k \in {Key(1, 2, "FOOD"), Key(2, 1, "FOOD")} |-> [level |-> MaxLevel]]

FieldEdges == BuildEdges(FieldNodes, [i \in DOMAIN FieldNodes |-> <<>>], << <<1, 2>> >>)

\* place_pheromone -> GameManager.placePheromone
PlacePheromone(playerId, from, to, type, amount) ==
  /\ pc = "running"
  /\ tick.n < MaxServerOps
  /\ LET ok == placeAccepted(players, edges, playerId, from, to, amount)
     IN  /\ players' = IF ok THEN [players EXCEPT ![playerId] = RSub(@, RMul(amount, RInt(5)))]
                       ELSE players
         /\ pheromones' = IF ok THEN placeField(pheromones, playerId, from, to, type, amount)
                          ELSE pheromones
         /\ call' = IF ~ok THEN [op |-> "placePheromone", args |-> <<>>, result |-> "rejected"]
                    ELSE [op |-> "placePheromone",
                          args |-> <<from, to, type, amount>>,
                          result |-> IF DOMAIN pheromones = {} THEN "first" ELSE "placed"]
         /\ tick' = IF ok THEN [tick EXCEPT !.n = @ + 1, !.idx = 0, !.dt = RInt(0)]
                    ELSE tick
  /\ UNCHANGED <<nodes, edges, gameState, ants, colonyPher, resources, spawnTimer, pc, params, games, sockets>>

\* GameManager.update, lines 240-256
ServerUpdate(dt) ==
  /\ pc = "running"
  /\ tick.n < MaxServerOps
  /\ pheromones' = DecayField(pheromones, ServerDecayRate, dt)
  /\ nodes' = [id \in DOMAIN nodes |-> UpdateNode(nodes[id], dt)]
  /\ players' = UpdatePlayers(players, dt)
  /\ gameState' = Snapshot(nodes', pheromones', players')
  /\ tick' = [tick EXCEPT !.n = @ + 1,
                          !.idx = IF @ = 0 \/ (@ > 0 /\ tick.dt = dt) THEN @ + 1 ELSE -1,
                          !.dt = dt]
  /\ UNCHANGED <<edges, ants, colonyPher, resources, spawnTimer, pc, call, params, games, sockets>>

\* AntColony.depositPheromone
DepositPheromone(from, to, type, amount) ==
  /\ pc = "running"
  /\ tick.n < MaxColonyOps
  /\ hasEdge(edges, from, to)
  /\ colonyPher' = depositField(colonyPher, from, to, type, amount)
  /\ call' = [op |-> "depositPheromone",
              args |-> <<from, to, type, amount>>,
              result |-> IF DOMAIN colonyPher = {} THEN "first" ELSE "placed"]
  /\ tick' = [tick EXCEPT !.n = @ + 1, !.idx = 0, !.dt = RInt(0)]
  /\ UNCHANGED <<nodes, edges, serverVars, ants, resources, spawnTimer, pc, params, games, sockets>>

\* AntColony.updatePheromones
UpdatePheromones(dt) ==
  /\ pc = "running"
  /\ tick.n < MaxColonyOps
  /\ colonyPher' = DecayField(colonyPher, ColonyDecayRate, dt)
  /\ tick' = [tick EXCEPT !.n = @ + 1,
                          !.idx = IF @ = 0 \/ (@ > 0 /\ tick.dt = dt) THEN @ + 1 ELSE -1,
                          !.dt = dt]
  /\ UNCHANGED <<nodes, edges, serverVars, ants, resources, spawnTimer, pc, call, params, games, sockets>>

InitServerField ==
  /\ nodes = FieldNodes
  /\ edges = FieldEdges
  /\ pheromones = <<>>
  /\ players = [p \in PlayerIds |-> StartEnergy]
  /\ gameState = Snapshot(nodes, pheromones, players)
  /\ ants = <<>>
  /\ colonyPher = <<>>
  /\ resources = [FOOD |-> 0]
  /\ spawnTimer = RInt(0)
  /\ params = DefaultParams
  /\ games = <<>>
  /\ sockets = <<>>
  /\ pc = "running"
  /\ call = NoCall
  /\ tick = NoTick

NextServerField ==
  \/ \E p \in PlayerIds \cup {"nobody"}, from, to \in FieldIds, type \in PheromoneTypes, amount \in PlayerAmounts :
       PlacePheromone(p, from, to, type, amount)
  \/ \E dt \in DeltaTimes : ServerUpdate(dt)

SpecServerField == InitServerField /\ [][NextServerField]_vars

NextColonyField ==
  \/ \E from, to \in FieldIds, type \in PheromoneTypes, amount \in AntAmounts :
       DepositPheromone(from, to, type, amount)
  \/ \E dt \in DeltaTimes : UpdatePheromones(dt)

InitColonyField ==
  /\ nodes = FieldNodes
  /\ edges = FieldEdges
  /\ pheromones = <<>>
  /\ players = [p \in PlayerIds |-> StartEnergy]
  /\ gameState = Snapshot(nodes, pheromones, players)
  /\ ants = <<>>
  /\ colonyPher \in {<<>>, SaturatedTrail}
  /\ resources = [FOOD |-> 0]
  /\ spawnTimer = RInt(0)
  /\ params = DefaultParams
  /\ games = <<>>
  /\ sockets = <<>>
  /\ pc = "running"
  /\ call = NoCall
  /\ tick = NoTick

SpecColonyField == InitColonyField /\ [][NextColonyField]_vars

\* The server's field and the colony's field side by side: players place,
\* agents deposit, and each field is decayed by its own update
NextFields ==
  \/ \E to \in FieldIds, type \in PheromoneTypes, amount \in PlayerAmounts :
       \E p \in PlayerIds : PlacePheromone(p, 1, to, type, amount)
  \/ \E dt \in DeltaTimes : ServerUpdate(dt)
  \/ \E from, to \in FieldIds, type \in PheromoneTypes, amount \in AntAmounts :
       DepositPheromone(from, to, type, amount)
  \/ \E dt \in DeltaTimes : UpdatePheromones(dt)

SpecFields == InitColonyField /\ [][NextFields]_vars

----------------------------------------------------------------------------
(* Ant: client/src/game/ant.js.  An agent is a record of the fields its
   behaviour reads: role, state, currentNodeId, previousNodeId (0 for null),
   carrying ("" for null), memory, memorySize, fatigue, movementProgress and
   movementSpeed.  The identifier, the path list (written, never read) and
   the fields of the drawing (position, targetPosition, scale, color) are
   left out.  Every Math.random() is a choice made by the action. *)

\* constructor and initRoleProperties, lines 12-61
NewAnt(nodeId, role) ==
  [ role             |-> role,
    state            |-> "EXPLORING",
    currentNodeId    |-> nodeId,
    previousNodeId   |-> 0,
    carrying         |-> "",
    memory           |-> <<nodeId>>,
    memorySize       |-> IF role = "SCOUT" THEN 8 ELSE 5,
    fatigue          |-> RInt(0),
    movementProgress |-> RInt(0),
    movementSpeed    |-> CASE role = "SCOUT"   -> RMul(Rat(1, 20), Rat(3, 2))
                           [] role = "SOLDIER" -> RMul(Rat(1, 20), Rat(4, 5))
                           [] OTHER            -> Rat(1, 20) ]

\* What one behaviour leaves behind: the agent, the nodes, the colony's
\* field and its ledger
Outcome(a, ns, field, res) == [ant |-> a, nodes |-> ns, field |-> field, resources |-> res]

\* An updateFatigue that lets an agent on its way back go on when exhausted
updateFatigueSparesReturning(a, dt) ==
  LET fatigue == RAdd(a.fatigue, RMul(IF a.carrying # "" THEN Rat(1, 10) ELSE Rat(1, 20), dt))
  IN  [a EXCEPT !.fatigue = fatigue,
                !.state = IF RLess(RInt(10), fatigue) /\ @ = "EXPLORING" THEN "RESTING" ELSE @]

\* updateFatigue, lines 100-109
updateFatigue(a, dt) ==
  LET fatigueRate == IF a.carrying # "" THEN Rat(1, 10) ELSE Rat(1, 20)
      fatigue == RAdd(a.fatigue, RMul(fatigueRate, dt))
  IN  [a EXCEPT !.fatigue = fatigue,
                !.state = IF RLess(RInt(10), fatigue) /\ @ # "RESTING" THEN "RESTING" ELSE @]

\* A shouldDepositPheromone that holds in every state
shouldDepositPheromoneAlways(a, coin) == TRUE

\* shouldDepositPheromone, lines 137-149; coin is Math.random() < 0.1
shouldDepositPheromone(a, coin) ==
  CASE a.state = "RETURNING" -> TRUE
    [] a.state = "EXPLORING" -> coin
    [] a.state = "FOLLOWING" -> a.carrying # ""
    [] OTHER -> FALSE

\* depositPheromone, lines 154-171
antDepositPheromone(a, field) ==
  IF a.previousNodeId = 0 \/ a.currentNodeId = 0 THEN field
  ELSE IF a.carrying # ""
    THEN depositField(field, a.previousNodeId, a.currentNodeId, "FOOD", Rat(1, 2))
  ELSE depositField(field, a.previousNodeId, a.currentNodeId, "EXPLORATION", Rat(1, 10))

\* updateMovement, lines 115-131
updateMovement(a, dt, coin, field) ==
  LET progress == RMin(RAdd(a.movementProgress, RMul(a.movementSpeed, dt)), RInt(1))
      a1 == [a EXCEPT !.movementProgress = progress]
  IN  [ant |-> a1,
       field |-> IF shouldDepositPheromone(a1, coin) THEN antDepositPheromone(a1, field)
                 ELSE field]

\* A calculateMovementProbabilities that reads no pheromone level
movementProbabilityBlind(a, ns, field, nodeId) ==
  LET memoryFactor == IF nodeId \in Range(a.memory) THEN Rat(1, 10) ELSE RInt(1)
      base == CASE a.state = "EXPLORING" -> RMul(Rat(1, 2), memoryFactor)
                [] a.state = "FOLLOWING" -> RInt(0)
                [] OTHER -> memoryFactor
      p1 == IF ns[nodeId].type = "FOOD_SOURCE" THEN RMul(base, RInt(3)) ELSE base
  IN  IF ns[nodeId].type = "NEST"
        THEN RMul(p1, IF a.carrying # "" THEN RInt(3) ELSE Rat(1, 2))
      ELSE p1

\* calculateMovementProbabilities, lines 202-230: the weight of one neighbour
movementProbability(a, ns, field, nodeId) ==
  LET memoryFactor == IF nodeId \in Range(a.memory) THEN Rat(1, 10) ELSE RInt(1)
      foodPheromone == getPheromoneLevel(field, a.currentNodeId, nodeId, "FOOD")
      explorationPheromone == getPheromoneLevel(field, a.currentNodeId, nodeId, "EXPLORATION")
      base == CASE a.state = "EXPLORING" ->
                     RMul(RAdd(RMul(explorationPheromone, Rat(1, 2)), Rat(1, 2)), memoryFactor)
                [] a.state = "FOLLOWING" ->
                     RMul(RAdd(RMul(foodPheromone, RInt(2)), RMul(explorationPheromone, Rat(1, 2))),
                          memoryFactor)
                [] OTHER -> memoryFactor
      p1 == IF ns[nodeId].type = "FOOD_SOURCE" THEN RMul(base, RInt(3)) ELSE base
  IN  IF ns[nodeId].type = "NEST"
        THEN RMul(p1, IF a.carrying # "" THEN RInt(3) ELSE Rat(1, 2))
      ELSE p1

\* selectBasedOnProbability, lines 237-260: the nodes some value of
\* Math.random() selects.  A positive share of the sum can be hit; the value 0
\* selects the first item whatever its share; a sum of 0 returns the first.
Selectable(nbrs, prob) ==
  IF nbrs = <<>> THEN {}
  ELSE {nbrs[1]} \cup {nbrs[i] : i \in {j \in 1..Len(nbrs) : RLess(RInt(0), prob[j])}}

\* A moveToNode that never drops a node from the memory
moveToNodeKeepsAll(a, nodeId) ==
  [a EXCEPT !.previousNodeId = a.currentNodeId,
            !.currentNodeId = nodeId,
            !.memory = Append(a.memory, nodeId),
            !.movementProgress = RInt(0)]

\* moveToNode, lines 266-282
moveToNode(a, nodeId) ==
  LET memory == Append(a.memory, nodeId)
  IN  [a EXCEPT !.previousNodeId = a.currentNodeId,
                !.currentNodeId = nodeId,
                !.memory = IF Len(memory) > a.memorySize THEN Tail(memory) ELSE memory,
                !.movementProgress = RInt(0)]

\* A checkForResources that takes a unit without the node losing one
checkForResourcesNoDecrement(a, ns, field, res) ==
  LET node == ns[a.currentNodeId]
      collects == node.type = "FOOD_SOURCE" /\ RLess(RInt(0), node.resources) /\ a.carrying = ""
      a1 == IF collects THEN [a EXCEPT !.carrying = "FOOD", !.state = "RETURNING"] ELSE a
  IN  IF node.type = "NEST" /\ a1.carrying # ""
        THEN Outcome([a1 EXCEPT !.carrying = "", !.state = "FOLLOWING"], ns, field,
                     [res EXCEPT ![a1.carrying] = @ + 1])
      ELSE Outcome(a1, ns, field, res)

\* A checkForResources that takes a unit from a source that has none left
checkForResourcesUnguarded(a, ns, field, res) ==
  LET node == ns[a.currentNodeId]
      collects == node.type = "FOOD_SOURCE" /\ a.carrying = ""
      a1 == IF collects THEN [a EXCEPT !.carrying = "FOOD", !.state = "RETURNING"] ELSE a
      ns1 == IF collects THEN [ns EXCEPT ![a.currentNodeId].resources = RSub(@, RInt(1))] ELSE ns
  IN  IF node.type = "NEST" /\ a1.carrying # ""
        THEN Outcome([a1 EXCEPT !.carrying = "", !.state = "FOLLOWING"], ns1, field,
                     [res EXCEPT ![a1.carrying] = @ + 1])
      ELSE Outcome(a1, ns1, field, res)

\* checkForResources, lines 287-308; addResource, AntColony lines 239-245
checkForResources(a, ns, field, res) ==
  LET node == ns[a.currentNodeId]
      collects == node.type = "FOOD_SOURCE" /\ RLess(RInt(0), node.resources) /\ a.carrying = ""
      a1 == IF collects THEN [a EXCEPT !.carrying = "FOOD", !.state = "RETURNING"] ELSE a
      ns1 == IF collects THEN [ns EXCEPT ![a.currentNodeId].resources = RSub(@, RInt(1))] ELSE ns
  IN  IF node.type = "NEST" /\ a1.carrying # ""
        THEN Outcome([a1 EXCEPT !.carrying = "", !.state = "FOLLOWING"], ns1, field,
                     [res EXCEPT ![a1.carrying] = @ + 1])
      ELSE Outcome(a1, ns1, field, res)

\* A selection among all the nodes of the graph but the agent's own
exploreChoicesAnywhere(a, ns, es, field) == DOMAIN ns \ {a.currentNodeId}

\* explore, lines 176-195: the nodes the selection can return
exploreChoices(a, ns, es, field) ==
  LET nbrs == getNeighbors(es, a.currentNodeId)
  IN  Selectable(nbrs, [i \in 1..Len(nbrs) |-> movementProbability(a, ns, field, nbrs[i])])

\* explore, lines 176-195, with the node selected
explore(a, ns, es, field, res, pick) ==
  IF getNeighbors(es, a.currentNodeId) = <<>>
    THEN Outcome([a EXCEPT !.state = "RETURNING"], ns, field, res)
  ELSE checkForResources(moveToNode(a, pick), ns, field, res)

\* A search of the closest neighbour in which the last of equals wins
RECURSIVE bestNeighborLastWins(_, _, _, _, _)
bestNeighborLastWins(ns, nbrs, i, bestNode, shortestDistance) ==
  IF i > Len(nbrs) THEN bestNode
  ELSE IF ns[nbrs[i]].distanceToNest <= shortestDistance /\ ns[nbrs[i]].distanceToNest < Infinity
    THEN bestNeighborLastWins(ns, nbrs, i + 1, nbrs[i], ns[nbrs[i]].distanceToNest)
  ELSE bestNeighborLastWins(ns, nbrs, i + 1, bestNode, shortestDistance)

\* returnToNest, lines 317-326: the first neighbour of least distance
RECURSIVE bestNeighbor(_, _, _, _, _)
bestNeighbor(ns, nbrs, i, bestNode, shortestDistance) ==
  IF i > Len(nbrs) THEN bestNode
  ELSE IF ns[nbrs[i]].distanceToNest < shortestDistance
    THEN bestNeighbor(ns, nbrs, i + 1, nbrs[i], ns[nbrs[i]].distanceToNest)
  ELSE bestNeighbor(ns, nbrs, i + 1, bestNode, shortestDistance)

\* returnToNest, lines 313-334: the nodes the agent can move to
returnChoices(a, ns, es) ==
  LET nbrs == getNeighbors(es, a.currentNodeId)
      bestNode == bestNeighbor(ns, nbrs, 1, 0, Infinity)
  IN  IF bestNode # 0 THEN {bestNode} ELSE Range(nbrs)

\* returnToNest, lines 313-334, with the node moved to
returnToNest(a, ns, es, field, res, pick) ==
  IF getNeighbors(es, a.currentNodeId) = <<>> THEN Outcome(a, ns, field, res)
  ELSE Outcome(moveToNode(a, pick), ns, field, res)

\* A rest that resumes exploring whether or not the agent carries
restResumesExploring(a, dt) ==
  LET fatigue == RSub(a.fatigue, RMul(Rat(1, 5), dt))
  IN  IF RLeq(fatigue, RInt(0))
        THEN [a EXCEPT !.fatigue = RInt(0), !.state = "EXPLORING"]
      ELSE [a EXCEPT !.fatigue = fatigue]

\* rest, lines 340-347
rest(a, dt) ==
  LET fatigue == RSub(a.fatigue, RMul(Rat(1, 5), dt))
  IN  IF RLeq(fatigue, RInt(0))
        THEN [a EXCEPT !.fatigue = RInt(0),
                       !.state = IF a.carrying # "" THEN "RETURNING" ELSE "EXPLORING"]
      ELSE [a EXCEPT !.fatigue = fatigue]

\* followTrail, lines 352-365: the nodes the selection can return
followChoices(a, es, field) ==
  LET nbrs == getNeighbors(es, a.currentNodeId)
  IN  Selectable(nbrs, [i \in 1..Len(nbrs) |->
        RPow(RAdd(getPheromoneLevel(field, a.currentNodeId, nbrs[i], "FOOD"), Rat(1, 10)), 3)])

\* followTrail, lines 352-375, with the node selected
followTrail(a, ns, es, field, res, pick) ==
  IF getNeighbors(es, a.currentNodeId) = <<>>
    THEN checkForResources([a EXCEPT !.state = "EXPLORING"], ns, field, res)
  ELSE checkForResources(moveToNode(a, pick), ns, field, res)

\* A choice of behaviour that runs the state machine during a transit too
BehaviourIgnoresTransit(a) ==
  CASE a.state = "RETURNING" -> "returnToNest"
    [] a.state = "RESTING"   -> "rest"
    [] a.state = "FOLLOWING" -> "followTrail"
    [] OTHER                 -> "explore"

\* update, lines 67-94: the behaviour the agent runs after updateFatigue
Behaviour(a) ==
  IF RLess(a.movementProgress, RInt(1)) THEN "updateMovement"
  ELSE CASE a.state = "RETURNING" -> "returnToNest"
         [] a.state = "RESTING"   -> "rest"
         [] a.state = "FOLLOWING" -> "followTrail"
         [] OTHER                 -> "explore"

\* The values Math.random() < 0.1 can take where it is evaluated
Coins(a) ==
  IF Behaviour(a) = "updateMovement" /\ a.state = "EXPLORING" THEN BOOLEAN ELSE {FALSE}

\* The nodes the behaviour can move the agent to (0: it does not move)
Picks(a, ns, es, field) ==
  LET b == Behaviour(a)
      c == CASE b = "explore"      -> exploreChoices(a, ns, es, field)
             [] b = "returnToNest" -> returnChoices(a, ns, es)
             [] b = "followTrail"  -> followChoices(a, es, field)
             [] OTHER              -> {}
  IN  IF c = {} THEN {0} ELSE c

\* update, lines 67-94, after updateFatigue
antBehave(a, dt, ns, es, field, res, coin, pick) ==
  LET b == Behaviour(a)
  IN  CASE b = "updateMovement" ->
             LET m == updateMovement(a, dt, coin, field)
             IN  Outcome(m.ant, ns, m.field, res)
        [] b = "returnToNest" -> returnToNest(a, ns, es, field, res, pick)
        [] b = "rest"         -> Outcome(rest(a, dt), ns, field, res)
        [] b = "followTrail"  -> followTrail(a, ns, es, field, res, pick)
        [] OTHER              -> explore(a, ns, es, field, res, pick)

----------------------------------------------------------------------------
(* AntColony.update, one step at a time: the call binds deltaTime, the loop
   updates the agents in the order of the collection, then updateAntSpawning
   and updatePheromones run.  tick.log lists the steps of the running tick. *)

MaxTicks == 7
\* updateAntSpawning, line 118
SpawnInterval == RDiv(RInt(1), params.antSpawnRate)

ColonyDeltaTimes == {RInt(10), RInt(20)}

\* determineAntRole, lines 144-177: the deficit of each role against
\* floor(total * ratio), the first largest positive one wins
Count(as, role) == Cardinality({i \in 1..Len(as) : as[i].role = role})

\* A determineAntRole in which a later role wins a tie
determineAntRoleLastWins(as) ==
  LET total == Len(as)
      dWorker  == ((total * 7) \div 10) - Count(as, "WORKER")
      dScout   == ((total * 2) \div 10) - Count(as, "SCOUT")
      dSoldier == ((total * 1) \div 10) - Count(as, "SOLDIER")
      b1 == IF dWorker > 0 THEN dWorker ELSE 0
      r2 == IF dScout >= b1 /\ dScout > 0 THEN "SCOUT" ELSE "WORKER"
      b2 == IF dScout > b1 THEN dScout ELSE b1
  IN  IF dSoldier >= b2 /\ dSoldier > 0 THEN "SOLDIER" ELSE r2

determineAntRole(as) ==
  LET total == Len(as)
      dWorker  == ((total * 7) \div 10) - Count(as, "WORKER")
      dScout   == ((total * 2) \div 10) - Count(as, "SCOUT")
      dSoldier == ((total * 1) \div 10) - Count(as, "SOLDIER")
      b1 == IF dWorker > 0 THEN dWorker ELSE 0
      r2 == IF dScout > b1 THEN "SCOUT" ELSE "WORKER"
      b2 == IF dScout > b1 THEN dScout ELSE b1
  IN  IF dSoldier > b2 THEN "SOLDIER" ELSE r2

\* spawnAnt, lines 129-138
spawnAnt(as, nestId) == Append(as, NewAnt(nestId, determineAntRole(as)))

RECURSIVE SpawnInitial(_, _, _)
SpawnInitial(as, nestId, k) ==
  IF k = 0 THEN as ELSE SpawnInitial(spawnAnt(as, nestId), nestId, k - 1)

\* A nest linked to a food source holding one unit and to a plain node
ColonyNodes ==
  <<NewNode(1, [type |-> "NEST", position |-> <<>>, size |-> 2, capacity |-> 20, resources |-> 0]),
    NewNode(2, [type |-> "FOOD_SOURCE", position |-> <<10, 0, 0>>, size |-> 0, capacity |-> 0, resources |-> 1]),
    NewNode(3, [type |-> "", position |-> <<0, 0, 10>>, size |-> 0, capacity |-> 0, resources |-> 0])>>

ColonyEdges ==
  BuildEdges(ColonyNodes, [i \in DOMAIN ColonyNodes |-> <<>>], << <<1, 2>>, <<1, 3>> >>)

\* findOrCreateNestNode, lines 68-91: the first node of type NEST
NestId == CHOOSE id \in DOMAIN ColonyNodes :
            /\ ColonyNodes[id].type = "NEST"
            /\ \A j \in 1..(id - 1) : ColonyNodes[j].type # "NEST"

\* An update that decays the field before it updates any agent
ColonyUpdateDecayFirst(dt) ==
  /\ pc = "running"
  /\ tick.n < MaxTicks
  /\ pc' = "ants"
  /\ colonyPher' = DecayField(colonyPher, ColonyDecayRate, dt)
  /\ tick' = [dt |-> dt, idx |-> 1, n |-> tick.n + 1,
              log |-> << <<"decay", Len(ants), "updatePheromones">> >>]
  /\ UNCHANGED <<graphVars, serverVars, ants, resources, spawnTimer, call, params, games, sockets>>

\* update, line 97: the call
ColonyUpdateStep(dt) ==
  /\ pc = "running"
  /\ tick.n < MaxTicks
  /\ pc' = "ants"
  /\ tick' = [dt |-> dt, idx |-> 1, log |-> <<>>, n |-> tick.n + 1]
  /\ UNCHANGED <<graphVars, serverVars, ants, colonyPher, resources, spawnTimer, params, games, sockets>>

ColonyUpdate(dt) == ColonyUpdateStep(dt) /\ UNCHANGED call

\* update, lines 99-101: ant.update(deltaTime) for the next agent
AntUpdateStep ==
  /\ pc = "ants"
  /\ tick.idx <= Len(ants)
  /\ \E i \in {tick.idx} :
       \E a \in {updateFatigue(ants[i], tick.dt)} :
         \E coin \in Coins(a), pick \in Picks(a, nodes, edges, colonyPher) :
           \E o \in {antBehave(a, tick.dt, nodes, edges, colonyPher, resources, coin, pick)} :
             /\ ants' = [ants EXCEPT ![i] = o.ant]
             /\ nodes' = o.nodes
             /\ colonyPher' = o.field
             /\ resources' = o.resources
             /\ tick' = [tick EXCEPT !.idx = i + 1,
                                     !.log = Append(@, <<"agent", i, Behaviour(a)>>)]
  /\ UNCHANGED <<edges, serverVars, spawnTimer, pc, params, games, sockets>>

AntUpdate == AntUpdateStep /\ UNCHANGED call

\* An updateAntSpawning that keeps the timer running after a spawn
UpdateAntSpawningKeepsTimer ==
  /\ pc = "ants"
  /\ tick.idx > Len(ants)
  /\ LET timer == RAdd(spawnTimer, tick.dt)
     IN  IF Len(ants) >= params.maxAnts
           THEN UNCHANGED <<ants, spawnTimer>>
         ELSE IF ~RLess(timer, SpawnInterval)
           THEN ants' = spawnAnt(ants, NestId) /\ spawnTimer' = timer
         ELSE ants' = ants /\ spawnTimer' = timer
  /\ pc' = "decay"
  /\ tick' = [tick EXCEPT !.log = Append(@, <<"spawn", Len(ants), "updateAntSpawning">>)]
  /\ UNCHANGED <<graphVars, serverVars, colonyPher, resources, call, params, games, sockets>>

\* update, line 104: updateAntSpawning, lines 114-124
UpdateAntSpawning ==
  /\ pc = "ants"
  /\ tick.idx > Len(ants)
  /\ LET timer == RAdd(spawnTimer, tick.dt)
     IN  IF Len(ants) >= params.maxAnts
           THEN UNCHANGED <<ants, spawnTimer>>
         ELSE IF ~RLess(timer, SpawnInterval)
           THEN ants' = spawnAnt(ants, NestId) /\ spawnTimer' = RInt(0)
         ELSE ants' = ants /\ spawnTimer' = timer
  /\ pc' = "decay"
  /\ tick' = [tick EXCEPT !.log = Append(@, <<"spawn", Len(ants), "updateAntSpawning">>)]
  /\ UNCHANGED <<graphVars, serverVars, colonyPher, resources, call, params, games, sockets>>

\* update, line 107: updatePheromones, lines 183-193
ColonyDecay ==
  /\ pc = "decay"
  /\ colonyPher' = DecayField(colonyPher, ColonyDecayRate, tick.dt)
  /\ pc' = "running"
  /\ tick' = [tick EXCEPT !.log = Append(@, <<"decay", Len(ants), "updatePheromones">>)]
  /\ UNCHANGED <<graphVars, serverVars, ants, resources, spawnTimer, call, params, games, sockets>>

\* constructor and init, lines 13-62
InitColony ==
  /\ params = DefaultParams
  /\ games = <<>>
  /\ sockets = <<>>
  /\ nodes = calculateDistances(ColonyNodes, ColonyEdges, NestId).nodes
  /\ edges = ColonyEdges
  /\ pheromones = <<>>
  /\ players = [p \in PlayerIds |-> StartEnergy]
  /\ gameState = Snapshot(nodes, pheromones, players)
  /\ ants = SpawnInitial(<<>>, NestId, params.initialAnts)
  /\ colonyPher = <<>>
  /\ resources = [FOOD |-> 0]
  /\ spawnTimer = RInt(0)
  /\ pc = "running"
  /\ call = NoCall
  /\ tick = NoTick

NextColony ==
  \/ \E dt \in ColonyDeltaTimes : ColonyUpdate(dt)
  \/ AntUpdate
  \/ UpdateAntSpawning
  \/ ColonyDecay

SpecColony == InitColony /\ [][NextColony]_vars

\* The same colony with the deposits of the running tick on record: call.args
\* holds the keys written since the tick began, call.result the weights the
\* last exploring agent gave its neighbours, in adjacency order

NoDeposits == [op |-> "deposits", args |-> {}, result |-> <<>>]

\* update, line 97: the tick begins and nothing is deposited yet
SharedUpdate(dt) == ColonyUpdateStep(dt) /\ call' = NoDeposits

\* ant.update of the next agent
AntShare ==
  /\ AntUpdateStep
  /\ LET a == updateFatigue(ants[tick.idx], tick.dt)
         nbrs == getNeighbors(edges, a.currentNodeId)
         written == {k \in DOMAIN colonyPher' : LevelOf(colonyPher, k) # colonyPher'[k].level}
     IN  call' = [op |-> "deposits",
                  args |-> call.args \cup written,
                  result |-> IF Behaviour(a) = "explore"
                               THEN [k \in 1..Len(nbrs) |->
                                       movementProbability(a, nodes, colonyPher, nbrs[k])]
                             ELSE <<>>]

InitShared ==
  /\ params = DefaultParams
  /\ games = <<>>
  /\ sockets = <<>>
  /\ nodes = calculateDistances(ColonyNodes, ColonyEdges, NestId).nodes
  /\ edges = ColonyEdges
  /\ pheromones = <<>>
  /\ players = [p \in PlayerIds |-> StartEnergy]
  /\ gameState = Snapshot(nodes, pheromones, players)
  /\ ants = SpawnInitial(<<>>, NestId, params.initialAnts)
  /\ colonyPher = <<>>
  /\ resources = [FOOD |-> 0]
  /\ spawnTimer = RInt(0)
  /\ pc = "running"
  /\ call = NoDeposits
  /\ tick = NoTick

NextShared ==
  \/ \E dt \in ColonyDeltaTimes : SharedUpdate(dt)
  \/ AntShare
  \/ UpdateAntSpawning
  \/ ColonyDecay

SpecShared == InitShared /\ [][NextShared]_vars

----------------------------------------------------------------------------
\* The population of a colony, for the configurations a caller can pass

\* The options passed to the constructor: a cap, a number of initial agents
\* (which the constructor does not compare with the cap) and a spawn rate
Configs ==
  [maxAnts : 1..MaxAnts, initialAnts : 1..(InitialAnts + 1), antSpawnRate : {Rat(1, 10), Rat(1, 20)}]

\* A graph of the nest alone
LoneNest == <<ColonyNodes[NestId]>>
NoEdges == [i \in DOMAIN LoneNest |-> <<>>]

\* constructor and init, lines 13-62, for each configuration
InitSpawn ==
  /\ params \in Configs
  /\ games = <<>>
  /\ sockets = <<>>
  /\ nodes = calculateDistances(LoneNest, NoEdges, NestId).nodes
  /\ edges = NoEdges
  /\ pheromones = <<>>
  /\ players = [p \in PlayerIds |-> StartEnergy]
  /\ gameState = Snapshot(nodes, pheromones, players)
  /\ ants = SpawnInitial(<<>>, NestId, params.initialAnts)
  /\ colonyPher = <<>>
  /\ resources = [FOOD |-> 0]
  /\ spawnTimer = RInt(0)
  /\ pc = "running"
  /\ call = NoCall
  /\ tick = NoTick

SpecSpawn == InitSpawn /\ [][NextColony]_vars

----------------------------------------------------------------------------
\* Player commands on the server's default graph

MaxCommands == 3

\* Two connected players
GamePlayers == {"p1", "p2"}

\* The amounts sent with place_pheromone: one the sender can pay and one that
\* costs more than any player's energy
CommandAmounts == {RInt(1), RInt(30)}

\* createDefaultGraph, lines 50-93, with the grid cut down to one node of
\* each kind it creates: the nest, a grid node and a corner food source
DefaultGrid ==
  <<NewNode(1, [type |-> "NEST", position |-> <<>>, size |-> 2, capacity |-> 20, resources |-> 0]),
    NewNode(2, [type |-> "NORMAL", position |-> <<10, 0, 0>>, size |-> 1, capacity |-> 10, resources |-> 0]),
    NewNode(3, [type |-> "FOOD_SOURCE", position |-> <<40, 0, 40>>, size |-> 1, capacity |-> 10, resources |-> 100])>>

\* lines 95-132: the grid node is linked to the nest, the corner to the grid
DefaultEdges ==
  BuildEdges(DefaultGrid, [i \in DOMAIN DefaultGrid |-> <<>>], << <<2, 1>>, <<3, 2>> >>)

\* line 135: the distances to the nest are calculated last
DefaultNodes == calculateDistances(DefaultGrid, DefaultEdges, 1).nodes

\* The identifiers of the default graph's nodes and one that names no node
DefaultIds == DOMAIN DefaultNodes \cup {Len(DefaultNodes) + 1}

\* The node pairs sent with place_pheromone: an edge, two nodes without an
\* edge, and a pair with an unknown node
CommandEdges == {<<1, 2>>, <<1, 3>>, <<3, Len(DefaultNodes) + 1>>}

\* place_pheromone (part_000 lines 114-136) -> GameManager.placePheromone
OnPlacePheromone(playerId, from, to, type, amount) ==
  /\ pc = "running"
  /\ tick.n < MaxCommands
  /\ LET ok == placeAccepted(players, edges, playerId, from, to, amount)
     IN  /\ players' = IF ok THEN [players EXCEPT ![playerId] = RSub(@, RMul(amount, RInt(5)))]
                       ELSE players
         /\ pheromones' = IF ok THEN placeField(pheromones, playerId, from, to, type, amount)
                          ELSE pheromones
         /\ call' = [op |-> "placePheromone", args |-> <<playerId, from, to, type, amount>>,
                     result |-> IF ok THEN "true" ELSE "false"]
  /\ tick' = [tick EXCEPT !.n = @ + 1]
  /\ UNCHANGED <<nodes, edges, gameState, ants, colonyPher, resources, spawnTimer, pc, params, games, sockets>>

\* boost_node (part_000 lines 138-156) -> GameManager.boostNode
OnBoostNode(playerId, nodeId) ==
  /\ pc = "running"
  /\ tick.n < MaxCommands
  /\ \E r \in {boostNode(players, nodes, playerId, nodeId)} :
       /\ players' = r.players
       /\ nodes' = r.nodes
       /\ call' = [op |-> "boostNode", args |-> <<playerId, nodeId>>, result |-> r.result]
  /\ tick' = [tick EXCEPT !.n = @ + 1]
  /\ UNCHANGED <<edges, pheromones, gameState, ants, colonyPher, resources, spawnTimer, pc, params, games, sockets>>

\* disrupt_node (part_000 lines 158-176) -> GameManager.disruptNode
OnDisruptNode(playerId, nodeId) ==
  /\ pc = "running"
  /\ tick.n < MaxCommands
  /\ \E r \in {disruptNode(players, nodes, playerId, nodeId)} :
       /\ players' = r.players
       /\ nodes' = r.nodes
       /\ call' = [op |-> "disruptNode", args |-> <<playerId, nodeId>>, result |-> r.result]
  /\ tick' = [tick EXCEPT !.n = @ + 1]
  /\ UNCHANGED <<edges, pheromones, gameState, ants, colonyPher, resources, spawnTimer, pc, params, games, sockets>>

\* expand_node (part_000 lines 178-196) -> GameManager.expandNode
OnExpandNode(playerId, nodeId) ==
  /\ pc = "running"
  /\ tick.n < MaxCommands
  /\ \E r \in {expandNode(players, nodes, playerId, nodeId)} :
       /\ players' = r.players
       /\ nodes' = r.nodes
       /\ call' = [op |-> "expandNode", args |-> <<playerId, nodeId>>, result |-> r.result]
  /\ tick' = [tick EXCEPT !.n = @ + 1]
  /\ UNCHANGED <<edges, pheromones, gameState, ants, colonyPher, resources, spawnTimer, pc, params, games, sockets>>

\* The game loop's call of GameManager.update, lines 240-256
GameLoop(dt) ==
  /\ pc = "running"
  /\ tick.n < MaxCommands
  /\ pheromones' = DecayField(pheromones, ServerDecayRate, dt)
  /\ nodes' = [id \in DOMAIN nodes |-> UpdateNode(nodes[id], dt)]
  /\ players' = UpdatePlayers(players, dt)
  /\ gameState' = Snapshot(nodes', pheromones', players')
  /\ call' = [op |-> "update", args |-> <<dt>>, result |-> "done"]
  /\ tick' = [tick EXCEPT !.n = @ + 1]
  /\ UNCHANGED <<edges, ants, colonyPher, resources, spawnTimer, pc, params, games, sockets>>

\* The server after its constructor built the default graph and two players
\* joined
InitCommands ==
  /\ nodes = DefaultNodes
  /\ edges = DefaultEdges
  /\ pheromones = <<>>
  /\ players = [p \in GamePlayers |-> StartEnergy]
  /\ gameState = Snapshot(nodes, pheromones, players)
  /\ ants = <<>>
  /\ colonyPher = <<>>
  /\ resources = [FOOD |-> 0]
  /\ spawnTimer = RInt(0)
  /\ params = DefaultParams
  /\ games = <<>>
  /\ sockets = <<>>
  /\ pc = "running"
  /\ call = NoCall
  /\ tick = NoTick

NextCommands ==
  \/ \E p \in GamePlayers \cup {"nobody"}, e \in CommandEdges, amount \in CommandAmounts :
       OnPlacePheromone(p, e[1], e[2], "FOOD", amount)
  \/ \E p \in GamePlayers \cup {"nobody"}, n \in DefaultIds : OnBoostNode(p, n)
  \/ \E p \in GamePlayers \cup {"nobody"}, n \in DefaultIds : OnDisruptNode(p, n)
  \/ \E p \in GamePlayers \cup {"nobody"}, n \in DefaultIds : OnExpandNode(p, n)
  \/ \E dt \in DeltaTimes : GameLoop(dt)

SpecCommands == InitCommands /\ [][NextCommands]_vars

\* The commands of one player with the amounts of PlayerAmounts, one of them
\* negative, on the edge of the default graph and on two of its nodes
NextEnergy ==
  \/ \E amount \in PlayerAmounts : OnPlacePheromone("p1", 1, 2, "FOOD", amount)
  \/ \E n \in {2, 3} : OnBoostNode("p1", n)
  \/ \E n \in {2, 3} : OnDisruptNode("p1", n)
  \/ \E n \in {2, 3} : OnExpandNode("p1", n)
  \/ \E dt \in DeltaTimes : GameLoop(dt)

SpecEnergy == InitCommands /\ [][NextEnergy]_vars

----------------------------------------------------------------------------
(* Sessions: the socket handlers of the server's entry point (part_000).
   The registry `games` maps a game identifier to the keys of that game's
   players Map; a socket has its gameData ("" while it has none) and is
   connected until its disconnect event. *)

MaxSockets == 3      \* sockets that connect
MaxGames == 2        \* games in the registry at one time

SocketIds == 1..MaxSockets
GameIds == 1..MaxGames

\* uuidv4(): an identifier no game of the registry has
FreshGameIds == GameIds \ DOMAIN games

\* join_game with no gameId, lines 57-111: a game is created and registered,
\* the socket is added to its players and the game is stored in the socket
OnJoinNewGame(s) ==
  /\ sockets[s].connected
  /\ FreshGameIds # {}
  /\ \E g \in {CHOOSE x \in FreshGameIds : \A y \in FreshGameIds : x <= y} :
       /\ games' = Put(games, g, {s})
       /\ sockets' = [sockets EXCEPT ![s].gameData = g]
       /\ call' = [op |-> "join_game", args |-> <<s, 0>>, result |-> "true"]
  /\ UNCHANGED <<nodes, edges, serverVars, colonyVars, pc, params>>

\* join_game with a gameId, lines 57-111: an unknown game is refused; else
\* the socket is added to the game's players and the game is stored in the
\* socket, whatever the socket had stored before
OnJoinGame(s, g) ==
  /\ sockets[s].connected
  /\ IF g \in DOMAIN games
       THEN /\ games' = [games EXCEPT ![g] = @ \cup {s}]
            /\ sockets' = [sockets EXCEPT ![s].gameData = g]
       ELSE UNCHANGED <<games, sockets>>
  /\ call' = [op |-> "join_game", args |-> <<s, g>>,
              result |-> IF g \in DOMAIN games THEN "true" ELSE "false"]
  /\ UNCHANGED <<nodes, edges, serverVars, colonyVars, pc, params>>

\* disconnect, lines 198-218: the socket is removed from the players of the
\* game it has stored, and that game is deleted when no player is left
OnDisconnect(s) ==
  /\ sockets[s].connected
  /\ sockets' = [sockets EXCEPT ![s].connected = FALSE]
  /\ \E g \in {sockets[s].gameData} :
       games' = IF g = 0 \/ g \notin DOMAIN games THEN games
                ELSE IF games[g] \ {s} = {}
                  THEN [x \in DOMAIN games \ {g} |-> games[x]]
                ELSE [games EXCEPT ![g] = @ \ {s}]
  /\ call' = [op |-> "disconnect", args |-> <<s>>, result |-> "done"]
  /\ UNCHANGED <<nodes, edges, serverVars, colonyVars, pc, params>>

\* The server after start-up, every socket connected and in no game
InitSessions ==
  /\ nodes = <<>>
  /\ edges = <<>>
  /\ pheromones = <<>>
  /\ players = <<>>
  /\ gameState = [nodes |-> <<>>, pheromones |-> {}, players |-> {}]
  /\ ants = <<>>
  /\ colonyPher = <<>>
  /\ resources = [FOOD |-> 0]
  /\ spawnTimer = RInt(0)
  /\ params = DefaultParams
  /\ games = <<>>
  /\ sockets = [s \in SocketIds |-> [connected |-> TRUE, gameData |-> 0]]
  /\ pc = "running"
  /\ call = NoCall
  /\ tick = NoTick

NextSessions ==
  \/ \E s \in SocketIds : OnJoinNewGame(s)
  \/ \E s \in SocketIds, g \in GameIds : OnJoinGame(s, g)
  \/ \E s \in SocketIds : OnDisconnect(s)

SpecSessions == InitSessions /\ [][NextSessions]_vars

\* The game loop running on without end (setInterval, part_000): the update
\* is not counted, so that only the commands are bounded
GameLoopAgain(dt) ==
  /\ pc = "running"
  /\ \E ns \in {[id \in DOMAIN nodes |-> UpdateNode(nodes[id], dt)]},
        ps \in {UpdatePlayers(players, dt)},
        f \in {DecayField(pheromones, ServerDecayRate, dt)} :
       /\ nodes' = ns
       /\ players' = ps
       /\ pheromones' = f
       /\ gameState' = Snapshot(ns, f, ps)
  /\ call' = [op |-> "update", args |-> <<dt>>, result |-> "done"]
  /\ UNCHANGED <<edges, ants, colonyPher, resources, spawnTimer, pc, params, games, sockets, tick>>

\* The seconds between two updates of the game loop: an effect of 20 or 30
\* seconds runs out on a boundary or is cut short
EffectDeltaTimes == {RInt(10), RInt(20)}

\* The nodes the effects are ordered on: the nest and a grid node
EffectNodes == {1, 2}

NextEffects ==
  \/ \E n \in EffectNodes : OnBoostNode("p1", n)
  \/ \E n \in EffectNodes : OnDisruptNode("p1", n)
  \/ \E dt \in EffectDeltaTimes : GameLoopAgain(dt)

\* The timer of the game loop fires again and again
SpecEffects ==
  /\ InitCommands
  /\ [][NextEffects]_vars
  /\ WF_vars(\E dt \in EffectDeltaTimes : GameLoopAgain(dt))

----------------------------------------------------------------------------
\* The role of the next agent, for populations of every composition

MaxPopulation == 10

\* role repeated k times, as agents at the nest
RECURSIVE AntsOf(_, _)
AntsOf(role, k) == IF k = 0 THEN <<>> ELSE <<NewAnt(NestId, role)>> \o AntsOf(role, k - 1)

\* Every composition of at most MaxPopulation agents
Populations ==
  { AntsOf("WORKER", c[1]) \o AntsOf("SCOUT", c[2]) \o AntsOf("SOLDIER", c[3]) :
      c \in {x \in (0..MaxPopulation) \X (0..MaxPopulation) \X (0..MaxPopulation) :
               x[1] + x[2] + x[3] <= MaxPopulation} }

\* AntColony.determineAntRole, called on the population as it stands
DetermineAntRole ==
  /\ pc = "running"
  /\ call.op # "determineAntRole"
  /\ call' = [op |-> "determineAntRole", args |-> <<>>, result |-> determineAntRole(ants)]
  /\ UNCHANGED <<graphVars, serverVars, colonyVars, pc, params, games, sockets>>

\* AntColony.spawnAnt
SpawnAnt ==
  /\ pc = "running"
  /\ Len(ants) < MaxPopulation
  /\ ants' = spawnAnt(ants, NestId)
  /\ call' = [op |-> "spawnAnt", args |-> <<>>, result |-> ants'[Len(ants')].role]
  /\ UNCHANGED <<graphVars, serverVars, colonyPher, resources, spawnTimer, tick, pc, params, games, sockets>>

InitRoles ==
  /\ nodes = ColonyNodes
  /\ edges = ColonyEdges
  /\ pheromones = <<>>
  /\ players = [p \in PlayerIds |-> StartEnergy]
  /\ gameState = Snapshot(nodes, pheromones, players)
  /\ ants \in Populations
  /\ colonyPher = <<>>
  /\ resources = [FOOD |-> 0]
  /\ spawnTimer = RInt(0)
  /\ params = DefaultParams
  /\ games = <<>>
  /\ sockets = <<>>
  /\ pc = "running"
  /\ call = NoCall
  /\ tick = NoTick

NextRoles == DetermineAntRole \/ SpawnAnt

SpecRoles == InitRoles /\ [][NextRoles]_vars

----------------------------------------------------------------------------
(* A colony of one agent under ticks without end.  With a deltaTime of 20 s
   or 40 s the decay factor 1 - 0.05 * dt is 0 or -1, every level falls below
   0.01, the field is empty after every tick and the run has finitely many
   states. *)

RestDeltaTimes == {RInt(20), RInt(40)}

\* A colony configured for a single agent
LoneParams == [maxAnts |-> 1, initialAnts |-> 1, antSpawnRate |-> Rat(1, 10)]

\* update, line 97: the call, in a run whose ticks are not numbered
ColonyUpdateAgain(dt) ==
  /\ pc = "running"
  /\ pc' = "ants"
  /\ tick' = [dt |-> dt, idx |-> 1, log |-> <<>>, n |-> tick.n]
  /\ UNCHANGED <<graphVars, serverVars, ants, colonyPher, resources, spawnTimer, call, params, games, sockets>>

InitRest ==
  /\ params = LoneParams
  /\ games = <<>>
  /\ sockets = <<>>
  /\ nodes = calculateDistances(ColonyNodes, ColonyEdges, NestId).nodes
  /\ edges = ColonyEdges
  /\ pheromones = <<>>
  /\ players = [p \in PlayerIds |-> StartEnergy]
  /\ gameState = Snapshot(nodes, pheromones, players)
  /\ ants = SpawnInitial(<<>>, NestId, params.initialAnts)
  /\ colonyPher = <<>>
  /\ resources = [FOOD |-> 0]
  /\ spawnTimer = RInt(0)
  /\ pc = "running"
  /\ call = NoCall
  /\ tick = NoTick

NextRest ==
  \/ \E dt \in RestDeltaTimes : ColonyUpdateAgain(dt)
  \/ AntUpdate
  \/ UpdateAntSpawning
  \/ ColonyDecay

\* The game loop calls update again and again
SpecRest == InitRest /\ [][NextRest]_vars /\ WF_vars(NextRest)

----------------------------------------------------------------------------
\* The walk of a single agent of each role, with the nodes it has occupied
\* on record: call.args lists them from the node it was created on

MaxVisits == 10

\* update, line 97, while the record of the walk has room
WalkUpdate(dt) ==
  /\ Len(call.args) < MaxVisits
  /\ ColonyUpdateAgain(dt)

\* ant.update of the agent; a completed move that is followed by a new one
\* (movementProgress goes from 1 to 0) adds the node moved to to the record
AntWalk ==
  /\ AntUpdateStep
  /\ LET i == tick.idx
         moved == ants[i].movementProgress = RInt(1) /\ ants'[i].movementProgress = RInt(0)
     IN  call' = [call EXCEPT !.args = IF moved THEN Append(@, ants'[i].currentNodeId) ELSE @]

\* new Ant(colony, nestId, role) for each role, in a colony whose cap is 1
InitWalk ==
  /\ params = LoneParams
  /\ games = <<>>
  /\ sockets = <<>>
  /\ nodes = calculateDistances(ColonyNodes, ColonyEdges, NestId).nodes
  /\ edges = ColonyEdges
  /\ pheromones = <<>>
  /\ players = [p \in PlayerIds |-> StartEnergy]
  /\ gameState = Snapshot(nodes, pheromones, players)
  /\ \E role \in {"WORKER", "SCOUT", "SOLDIER"} : ants = <<NewAnt(NestId, role)>>
  /\ colonyPher = <<>>
  /\ resources = [FOOD |-> 0]
  /\ spawnTimer = RInt(0)
  /\ pc = "running"
  /\ call = [op |-> "visits", args |-> <<NestId>>, result |-> "none"]
  /\ tick = NoTick

NextWalk ==
  \/ \E dt \in RestDeltaTimes : WalkUpdate(dt)
  \/ AntWalk
  \/ UpdateAntSpawning
  \/ ColonyDecay

SpecWalk == InitWalk /\ [][NextWalk]_vars

\* The walk of a single agent on a graph with a food source two hops from the
\* nest: the source's adjacency list names a node three hops from the nest
\* first, then the two nodes one hop from it
TrailNodes ==
  <<NewNode(1, [type |-> "NEST", position |-> <<>>, size |-> 2, capacity |-> 20, resources |-> 0]),
    NewNode(2, [type |-> "", position |-> <<10, 0, 0>>, size |-> 0, capacity |-> 0, resources |-> 0]),
    NewNode(3, [type |-> "", position |-> <<0, 0, 10>>, size |-> 0, capacity |-> 0, resources |-> 0]),
    NewNode(4, [type |-> "FOOD_SOURCE", position |-> <<10, 0, 10>>, size |-> 0, capacity |-> 0, resources |-> 1]),
    NewNode(5, [type |-> "", position |-> <<20, 0, 20>>, size |-> 0, capacity |-> 0, resources |-> 0])>>

TrailEdges ==
  BuildEdges(TrailNodes, [i \in DOMAIN TrailNodes |-> <<>>],
             << <<4, 5>>, <<4, 3>>, <<4, 2>>, <<1, 2>>, <<1, 3>> >>)

InitReturn ==
  /\ params = LoneParams
  /\ games = <<>>
  /\ sockets = <<>>
  /\ nodes = calculateDistances(TrailNodes, TrailEdges, NestId).nodes
  /\ edges = TrailEdges
  /\ pheromones = <<>>
  /\ players = [p \in PlayerIds |-> StartEnergy]
  /\ gameState = Snapshot(nodes, pheromones, players)
  /\ \E role \in {"WORKER", "SCOUT", "SOLDIER"} : ants = <<NewAnt(NestId, role)>>
  /\ colonyPher = <<>>
  /\ resources = [FOOD |-> 0]
  /\ spawnTimer = RInt(0)
  /\ pc = "running"
  /\ call = [op |-> "visits", args |-> <<NestId>>, result |-> "none"]
  /\ tick = NoTick

SpecReturn == InitReturn /\ [][NextWalk]_vars

----------------------------------------------------------------------------
(* Claims about the pheromone fields *)

InRange(level) == RLeq(RInt(0), level) /\ RLeq(level, MaxLevel)

AllKeys == {Key(from, to, type) : from \in FieldIds, to \in FieldIds, type \in PheromoneTypes}

\* C6: after any sequence of deposits (by agents through the colony, by
\* players through placePheromone with any numeric amount) and decay steps,
\* every stored level is at least 0 and at most 5.0, and the level of an
\* absent entry reads as 0.
C6_LevelsWithinBounds ==
  /\ \A k \in DOMAIN pheromones : InRange(pheromones[k].level)
  /\ \A k \in DOMAIN colonyPher : InRange(colonyPher[k].level)
  /\ \A k \in AllKeys \ DOMAIN colonyPher :
       getPheromoneLevel(colonyPher, k[1], k[2], k[3]) = RInt(0)

\* The step is a call of depositPheromone
IsDeposit == tick'.n = tick.n + 1 /\ tick'.idx = 0 /\ call'.op = "depositPheromone"

SingleDeposit ==
  /\ call.op = "placePheromone" /\ call.result = "first"
  /\ call.args[3] = "FOOD"
  /\ tick.idx >= 0

\* The level a * (1 - r * dt)^n after n decay steps
DecayValue(a, n) ==
  RMul(a, RPow(RSub(RInt(1), RMul(ServerDecayRate, tick.dt)), n))

\* The entry of the single deposit is as if the level placed was a
DecaysFrom(a) ==
  LET key == Key(call.args[1], call.args[2], "FOOD")
  IN  IF \E m \in 1..tick.idx : RLess(DecayValue(a, m), Negligible)
        THEN key \notin DOMAIN pheromones
      ELSE key \in DOMAIN pheromones /\ pheromones[key].level = DecayValue(a, tick.idx)

\* C8 (as stated): after a single deposit of amount a on (X,Y,FOOD) and n
\* decay steps of size dt at rate r the stored level is a * (1 - r*dt)^n, and
\* the entry is absent from the first step at which that value is below 0.01.
C8_DecayOfAmount == SingleDeposit => DecaysFrom(call.args[4])

\* C8 (amended): the same with the deposited amount clamped to the ceiling:
\* the stored level is min(a, 5.0) * (1 - r*dt)^n, and the entry is absent
\* from the first step at which that value is below 0.01.
C8_DecayOfClampedAmount == SingleDeposit => DecaysFrom(RMin(call.args[4], MaxLevel))

\* An amount above the ceiling has decayed twice and is still stored
C8_Witness ==
  /\ SingleDeposit
  /\ call.args[4] = RInt(6)
  /\ tick.idx = 2
  /\ Key(call.args[1], call.args[2], "FOOD") \in DOMAIN pheromones

----------------------------------------------------------------------------
(* Claims about the colony's tick and its agents *)

\* The step is the update of agent i
AgentStep(i) == pc = "ants" /\ tick.idx = i /\ tick'.idx = i + 1

\* Agent i, standing on a NEST node it has reached, is RETURNING with a load
\* when its behaviour is chosen
ArrivedCarrying(i) ==
  LET a == updateFatigue(ants[i], tick.dt)
  IN  /\ a.state = "RETURNING"
      /\ a.carrying # ""
      /\ nodes[a.currentNodeId].type = "NEST"
      /\ a.movementProgress = RInt(1)

\* C5: an agent in state RETURNING that carries a resource and has completed
\* its move onto a NEST node credits the colony ledger of the carried kind by
\* one, carries nothing afterwards and is in state FOLLOWING.
C5_CreditOnArrival ==
  [][\A i \in 1..Len(ants) :
       (AgentStep(i) /\ ArrivedCarrying(i)) =>
          /\ resources'[ants[i].carrying] = resources[ants[i].carrying] + 1
          /\ ants'[i].carrying = ""
          /\ ants'[i].state = "FOLLOWING"]_vars

Phase(j) == tick.log[j][1]

CheckRuns(i) ==
  /\ AgentStep(i)
  /\ LET b == Behaviour(updateFatigue(ants[i], tick.dt))
     IN  \/ b = "followTrail"
         \/ b = "explore" /\ getNeighbors(edges, ants[i].currentNodeId) # <<>>

\* C10: when the resource check runs for an agent that is not carrying and
\* whose current node is a FOOD_SOURCE with resources r > 0, the agent carries
\* afterwards, its state is RETURNING and the node holds r - 1; when r is 0 or
\* the agent already carries, the node's resources and the agent's carrying
\* are unchanged.
C10_ResourceCheck ==
  [][\A i \in 1..Len(ants) :
       CheckRuns(i) =>
         LET n == ants'[i].currentNodeId
             r == nodes[n].resources
         IN  nodes[n].type = "FOOD_SOURCE" =>
               IF ants[i].carrying = "" /\ RLess(RInt(0), r)
                 THEN /\ ants'[i].carrying # ""
                      /\ ants'[i].state = "RETURNING"
                      /\ nodes'[n].resources = RSub(r, RInt(1))
               ELSE /\ nodes'[n].resources = r
                    /\ ants'[i].carrying = ants[i].carrying]_vars

\* One agent has taken the only unit of a food source, and another has just
\* explored onto the emptied source and carries nothing
C10_Witness ==
  \E i, j \in 1..Len(ants) :
    /\ i # j
    /\ ants[i].carrying = "FOOD" /\ ants[i].state = "RETURNING"
    /\ tick.log # <<>>
    /\ tick.log[Len(tick.log)] = <<"agent", j, "explore">>
    /\ nodes[ants[j].currentNodeId].type = "FOOD_SOURCE"
    /\ nodes[ants[j].currentNodeId].resources = RInt(0)
    /\ ants[j].carrying = ""

\* C11: in every tick in which an agent's fatigue exceeds 10 its state
\* becomes RESTING whatever it was before; and a RESTING agent under repeated
\* ticks eventually reaches fatigue 0 and is then EXPLORING if it carries
\* nothing and RETURNING if it carries.
C11_ExhaustionAndRecovery ==
  /\ [][\A i \in 1..Len(ants) :
          (AgentStep(i) /\ RLess(RInt(10), updateFatigue(ants[i], tick.dt).fatigue))
             => ants'[i].state = "RESTING"]_vars
  /\ (ants[1].state = "RESTING")
       ~> (/\ ants[1].fatigue = RInt(0)
           /\ ants[1].state = IF ants[1].carrying # "" THEN "RETURNING" ELSE "EXPLORING")

\* An agent that was on its way back with a load has been sent to rest
C11_Witness ==
  /\ ants[1].state = "RESTING"
  /\ ants[1].carrying = "FOOD"
  /\ RLess(RInt(10), ants[1].fatigue)

\* The units taken from the food sources are the loads carried plus the ledger
OneUnitEach ==
  LET taken == RSub(ColonyNodes[2].resources, nodes[2].resources)
      loads == Cardinality({i \in 1..Len(ants) : ants[i].carrying # ""})
  IN  /\ \A i \in 1..Len(ants) : ants[i].carrying \in {"", "FOOD"}
      /\ taken = RInt(loads + resources.FOOD)

\* C12 (as stated): an agent carries only while its state is RETURNING or
\* FOLLOWING, never while EXPLORING or RESTING, and never holds more than one
\* unit.
C12_CarryingOnlyReturning ==
  /\ \A i \in 1..Len(ants) :
       ants[i].carrying # "" => ants[i].state \in {"RETURNING", "FOLLOWING"}
  /\ OneUnitEach

\* C12 (amended): an agent carries only while its state is RETURNING,
\* FOLLOWING or RESTING (an exhausted agent rests with its load), never while
\* EXPLORING, and never holds more than one unit.
C12_CarryingNeverExploring ==
  /\ \A i \in 1..Len(ants) :
       ants[i].carrying # "" => ants[i].state \in {"RETURNING", "FOLLOWING", "RESTING"}
  /\ OneUnitEach

\* An agent rests with its load and has recovered part of its fatigue
C12_Witness ==
  /\ ants[1].state = "RESTING"
  /\ ants[1].carrying = "FOOD"
  /\ RLess(ants[1].fatigue, RInt(10))
  /\ nodes[2].resources = RInt(0)

----------------------------------------------------------------------------
\* Claims about the nodes and the player commands

\* C13: in every reachable state, from the setup of the environment on, every
\* node's resources is at most its capacity.
C13_ResourcesWithinCapacity ==
  \A id \in DOMAIN nodes : RLeq(nodes[id].resources, nodes[id].capacity)

\* The step is the command op
Command(op) == tick'.n = tick.n + 1 /\ call'.op = op

\* The player and the node a boost, disrupt or expand command was sent with
Caller(c) == c.args[1]
Target(c) == c.args[2]

\* C14: boostNode on a node already boosted returns false and leaves the
\* node's boostTimer, boosted flag and boostPlayerId and the caller's energy
\* unchanged.
C14_BoostedNodeRejectsBoost ==
  [][(/\ Command("boostNode")
      /\ Target(call') \in DOMAIN nodes
      /\ nodes[Target(call')].boosted)
       => /\ call'.result = "false"
          /\ nodes'[Target(call')].boostTimer = nodes[Target(call')].boostTimer
          /\ nodes'[Target(call')].boosted = nodes[Target(call')].boosted
          /\ nodes'[Target(call')].boostPlayerId = nodes[Target(call')].boostPlayerId
          /\ players' = players]_vars

\* A player who could pay was refused the boost of a node another player
\* boosted 5 seconds earlier
C14_Witness ==
  /\ call.op = "boostNode"
  /\ call.result = "false"
  /\ Caller(call) \in DOMAIN players
  /\ Target(call) \in DOMAIN nodes
  /\ nodes[Target(call)].boosted
  /\ nodes[Target(call)].boostTimer = RInt(25)
  /\ nodes[Target(call)].boostPlayerId # Caller(call)
  /\ ~RLess(players[Caller(call)], BoostCost)

\* C15: disruptNode on a NEST returns false whoever calls it, so no NEST is
\* ever disrupted; disruptNode on a node already disrupted returns false and
\* leaves its disruptTimer unchanged.
C15_NestNeverDisrupted ==
  /\ [](\A id \in DOMAIN nodes : nodes[id].type = "NEST" => ~nodes[id].disrupted)
  /\ [][(/\ Command("disruptNode")
         /\ Target(call') \in DOMAIN nodes
         /\ (nodes[Target(call')].type = "NEST" \/ nodes[Target(call')].disrupted))
          => /\ call'.result = "false"
             /\ nodes'[Target(call')].disruptTimer = nodes[Target(call')].disruptTimer
             /\ nodes'[Target(call')].disrupted = nodes[Target(call')].disrupted]_vars

\* A player with full energy was refused the disruption of the nest
C15_Witness ==
  /\ call.op = "disruptNode"
  /\ call.result = "false"
  /\ Caller(call) \in DOMAIN players
  /\ Target(call) \in DOMAIN nodes
  /\ nodes[Target(call)].type = "NEST"
  /\ players[Caller(call)] = StartEnergy
  /\ \E id \in DOMAIN nodes : nodes[id].disrupted

PlayerCommands == {"placePheromone", "boostNode", "disruptNode", "expandNode"}

\* C16: a player command that returns false leaves every node, every
\* pheromone entry and every player's energy unchanged.
C16_RejectedCommandChangesNothing ==
  [][(\E op \in PlayerCommands : Command(op) /\ call'.result = "false")
       => UNCHANGED <<nodes, edges, pheromones, players>>]_vars

\* A deposit was refused for lack of energy while the field holds entries and
\* a node is boosted
C16_Witness ==
  /\ call.op = "placePheromone"
  /\ call.result = "false"
  /\ Caller(call) \in DOMAIN players
  /\ hasEdge(edges, call.args[2], call.args[3])
  /\ DOMAIN pheromones # {}
  /\ \E id \in DOMAIN nodes : nodes[id].boosted

\* C17: expandNode returns false on a node of size 3 or more; a successful
\* expandNode raises the size by exactly 1 and strictly raises the capacity;
\* every node's size stays in 1..3.
C17_SizeWithinTiers ==
  /\ [](\A id \in DOMAIN nodes : nodes[id].size \in 1..MaxSize)
  /\ [][(Command("expandNode") /\ Target(call') \in DOMAIN nodes)
          => /\ nodes[Target(call')].size >= MaxSize => call'.result = "false"
             /\ call'.result = "true"
                  => /\ nodes'[Target(call')].size = nodes[Target(call')].size + 1
                     /\ RLess(nodes[Target(call')].capacity, nodes'[Target(call')].capacity)]_vars

\* A node created with size 1 was expanded to size 3
C17_Witness ==
  /\ call.op = "expandNode"
  /\ call.result = "true"
  /\ nodes[Target(call)].size = MaxSize
  /\ nodes[Target(call)].capacity = Rat(45, 2)

----------------------------------------------------------------------------
\* Claims about the population

\* The roles in the order determineAntRole visits them, and the tenths of the
\* population each should hold
Roles == <<"WORKER", "SCOUT", "SOLDIER">>
Tenths == <<7, 2, 1>>

\* floor(total * ratio) - count, for the i-th role
Deficit(as, i) == ((Len(as) * Tenths[i]) \div 10) - Count(as, Roles[i])

\* C18: determineAntRole returns the role with the largest strictly positive
\* deficit floor(total * ratio) - count, the earliest of WORKER, SCOUT, SOLDIER
\* among equal largest ones, and WORKER when no deficit is positive.
C18_LargestDeficitFirst ==
  call.op = "determineAntRole" =>
    LET positive == {i \in DOMAIN Roles : Deficit(ants, i) > 0}
        largest == {i \in positive : \A j \in positive : Deficit(ants, j) <= Deficit(ants, i)}
    IN  call.result = IF positive = {} THEN "WORKER"
                      ELSE Roles[CHOOSE i \in largest : \A j \in largest : i <= j]

\* SCOUT was returned on a tie of the SCOUT and SOLDIER deficits
C18_Witness ==
  /\ call.op = "determineAntRole"
  /\ call.result = "SCOUT"
  /\ Deficit(ants, 2) = Deficit(ants, 3)
  /\ Deficit(ants, 1) < Deficit(ants, 2)

\* C19: for every configuration, after construction and any sequence of ticks
\* the number of agents never exceeds maxAnts and never decreases.
C19_PopulationWithinCap ==
  /\ [](Len(ants) <= params.maxAnts)
  /\ [][Len(ants') >= Len(ants)]_vars

\* The step is the spawn step of a tick
SpawnStep == pc = "ants" /\ pc' = "decay"

\* What a tick does to the population and the spawn timer, for a spawn
\* condition on the accumulated timer
SpawnRule(due(_)) ==
  LET timer == RAdd(spawnTimer, tick.dt)
      below == Len(ants) < params.maxAnts
  IN  /\ ~SpawnStep => Len(ants') = Len(ants)
      /\ SpawnStep =>
           /\ Len(ants') = Len(ants) + (IF below /\ due(timer) THEN 1 ELSE 0)
           /\ spawnTimer' = IF ~below THEN spawnTimer
                            ELSE IF due(timer) THEN RInt(0) ELSE timer

Exceeds(timer) == RLess(SpawnInterval, timer)
Reaches(timer) == ~RLess(timer, SpawnInterval)

\* C20 (as stated): a tick spawns at most one agent; it spawns one exactly when
\* the population is below maxAnts and the timer accumulated over the ticks
\* below the cap exceeds 1/spawnRate, and then resets the timer to 0; the timer
\* does not advance at the cap.
C20_SpawnWhenTimerExceeds == [][SpawnRule(Exceeds)]_vars

\* C20 (amended): as stated, with the spawn happening exactly when the
\* accumulated timer is at least 1/spawnRate.
C20_SpawnWhenTimerReaches == [][SpawnRule(Reaches)]_vars

\* An agent was spawned on a timer accumulated over more than one tick
C20_Witness ==
  /\ pc = "decay"
  /\ tick.n >= 2
  /\ spawnTimer = RInt(0)
  /\ params.antSpawnRate = Rat(1, 20)
  /\ Len(ants) = tick.log[Len(tick.log)][2] + 1

----------------------------------------------------------------------------
\* Claims about the graph's edges and unknown identifiers

\* C21: graph operations given an unknown node identifier raise no error:
\* calculateDistances completes and leaves every node at distance Infinity,
\* findPath returns the empty sequence, and addEdge returns false and leaves
\* the adjacency lists unchanged.
C21_UnknownIdRaisesNothing ==
  /\ (call.op = "calculateDistances" /\ call.args[1] \notin DOMAIN nodes)
       => /\ call.result = "returned"
          /\ \A id \in DOMAIN nodes : nodes[id].distanceToNest = Infinity
  /\ (call.op = "findPath" /\ (call.args[1] \notin DOMAIN nodes \/ call.args[2] \notin DOMAIN nodes))
       => call.result = [outcome |-> "returned", path |-> <<>>]
  /\ \A a, b \in NodeIds :
       (a \notin DOMAIN nodes \/ b \notin DOMAIN nodes)
         => ~addEdgeResult(nodes, a, b) /\ addEdgeLists(nodes, edges, a, b) = edges

\* C22: addEdge(a, a) is ignored, so no node is its own neighbour and no
\* adjacency list holds the same identifier twice.
C22_NoSelfEdgeNoDuplicate ==
  \A a \in DOMAIN edges :
    /\ ~hasEdge(edges, a, a)
    /\ \A i, j \in 1..Len(edges[a]) : edges[a][i] = edges[a][j] => i = j

\* The step is a call of addEdge
AddEdgeStep == tick'.n = tick.n + 1 /\ call'.op = "addEdge"

\* C23: addEdge is idempotent: for distinct existing nodes a and b, addEdge(a,b)
\* or addEdge(b,a) after a first addEdge(a,b) returns true and leaves both
\* adjacency lists as they were; hasEdge(a,b) and hasEdge(b,a) are then true.
C23_AddEdgeIdempotent ==
  [][\A a, b \in DOMAIN nodes :
       (/\ AddEdgeStep
        /\ a # b
        /\ call'.args \in {<<a, b>>, <<b, a>>})
         => /\ call'.result = "true"
            /\ hasEdge(edges', a, b) /\ hasEdge(edges', b, a)
            /\ hasEdge(edges, a, b) => edges' = edges]_vars

\* addEdge(2, 1) and then addEdge(1, 2) were called on two nodes that
\* addEdge(1, 2) had linked
C23_Witness ==
  /\ tick.log = << <<"addEdge", 1, 2>>, <<"addEdge", 2, 1>>, <<"addEdge", 1, 2>> >>
  /\ call = [op |-> "addEdge", args |-> <<1, 2>>, result |-> "true"]
  /\ {1, 2} \subseteq DOMAIN nodes
  /\ edges[1] = <<2>>
  /\ edges[2] = <<1>>

----------------------------------------------------------------------------
\* Claims about the agent in transit

\* Agent i is updated while its movementProgress is below 1
TransitStep(i) == AgentStep(i) /\ RLess(ants[i].movementProgress, RInt(1))

\* C24: a tick of an agent whose movementProgress is below 1 evaluates no state
\* machine: currentNodeId, previousNodeId, carrying, memory and every node's
\* resources stay as they were; only movementProgress and fatigue change, the
\* state at most to RESTING, and the field by the transit deposit.
C24_TransitChangesNoPlace ==
  [][\A i \in 1..Len(ants) :
       TransitStep(i) =>
         /\ ants'[i] = [ants[i] EXCEPT !.movementProgress = ants'[i].movementProgress,
                                       !.fatigue = ants'[i].fatigue,
                                       !.state = ants'[i].state]
         /\ ants'[i].state \in {ants[i].state, "RESTING"}
         /\ nodes' = nodes
         /\ resources' = resources
         /\ \A j \in 1..Len(ants) : j # i => ants'[j] = ants[j]
         /\ \A k \in DOMAIN colonyPher' :
              (k \notin DOMAIN colonyPher \/ colonyPher'[k] # colonyPher[k])
                => {k[1], k[2]} = {ants[i].previousNodeId, ants[i].currentNodeId}]_vars

\* An agent half way to a food source has just been moved on and has left a
\* deposit on the edge it walks
C24_Witness ==
  \E i \in 1..Len(ants) :
    /\ tick.log # <<>>
    /\ tick.log[Len(tick.log)] = <<"agent", i, "updateMovement">>
    /\ ants[i].movementProgress = Rat(1, 2)
    /\ ants[i].previousNodeId # 0
    /\ nodes[ants[i].currentNodeId].type = "FOOD_SOURCE"
    /\ Key(ants[i].previousNodeId, ants[i].currentNodeId, "EXPLORATION") \in DOMAIN colonyPher

\* The transit tick of agent i deposits strength of type on the edge it walks
Deposits(i, type, strength) ==
  colonyPher' = depositField(colonyPher, ants[i].previousNodeId, ants[i].currentNodeId,
                             type, strength)

\* C25: in a transit tick an agent deposits on (previousNodeId, currentNodeId)
\* always if its state is RETURNING, only on the random draw if EXPLORING, only
\* if carrying when FOLLOWING and never when RESTING; the deposit is FOOD of
\* strength 0.5 if it carries and EXPLORATION of strength 0.1 otherwise; no
\* deposit is made while previousNodeId is null.  The state is the one the
\* agent has once the tick has updated its fatigue.
C25_TransitDeposit ==
  [][\A i \in 1..Len(ants) :
       TransitStep(i) =>
         LET state == ants'[i].state
             carries == ants[i].carrying # ""
             made == IF carries THEN Deposits(i, "FOOD", Rat(1, 2))
                     ELSE Deposits(i, "EXPLORATION", Rat(1, 10))
             none == colonyPher' = colonyPher
         IN  /\ ants[i].previousNodeId = 0 => none
             /\ ants[i].previousNodeId # 0 =>
                  /\ state = "RETURNING" => made
                  /\ state = "EXPLORING" => made \/ none
                  /\ state = "FOLLOWING" => IF carries THEN made ELSE none
                  /\ state = "RESTING" => none]_vars

\* A RETURNING agent with a load has just been moved on between two nodes and
\* the FOOD trail of its edge holds its deposit
C25_Witness ==
  \E i \in 1..Len(ants) :
    /\ tick.log # <<>>
    /\ tick.log[Len(tick.log)] = <<"agent", i, "updateMovement">>
    /\ ants[i].state = "RETURNING"
    /\ ants[i].carrying = "FOOD"
    /\ ants[i].previousNodeId # 0
    /\ LevelOf(colonyPher, Key(ants[i].previousNodeId, ants[i].currentNodeId, "FOOD")) = Rat(1, 2)

----------------------------------------------------------------------------
\* Claims about the agent's memory

\* The last k elements of a sequence, all of it when it is shorter
LastOf(seq, k) ==
  IF Len(seq) <= k THEN seq ELSE SubSeq(seq, Len(seq) - k + 1, Len(seq))

\* The size of the memory of each role
MemoryOf(role) == IF role = "SCOUT" THEN 8 ELSE 5

\* C26: an agent's memory holds at most k node identifiers (k = 5 for WORKER
\* and SOLDIER, 8 for SCOUT) and is, in order, the last min(k, visits) nodes
\* the agent has occupied, the oldest dropped first.
C26_MemoryIsLastVisits ==
  \A i \in 1..Len(ants) :
    /\ Len(ants[i].memory) <= MemoryOf(ants[i].role)
    /\ ants[i].memory = LastOf(call.args, MemoryOf(ants[i].role))

\* A scout has occupied ten nodes and remembers the last eight
C26_Witness ==
  /\ ants[1].role = "SCOUT"
  /\ Len(call.args) = 10
  /\ Len(ants[1].memory) = 8
  /\ ants[1].memory[1] = call.args[3]

----------------------------------------------------------------------------
\* Claims about the agents of one tick

\* The weight an exploring agent that carries nothing gives a neighbour whose
\* edge holds the EXPLORATION level given
ExploringWeight(a, nodeId, level) ==
  LET memoryFactor == IF nodeId \in Range(a.memory) THEN Rat(1, 10) ELSE RInt(1)
      typeFactor == CASE nodes[nodeId].type = "FOOD_SOURCE" -> RInt(3)
                      [] nodes[nodeId].type = "NEST" -> Rat(1, 2)
                      [] OTHER -> RInt(1)
  IN  RMul(RMul(RAdd(RMul(level, Rat(1, 2)), Rat(1, 2)), memoryFactor), typeFactor)

\* C27: within one tick the agents are updated one after another in the order
\* of the collection, and a deposit made by an agent during its update is read
\* by the neighbour weights of every agent updated later in the same tick.
C27_LaterAgentsReadDeposits ==
  [][\A j \in 1..Len(ants) :
       AgentStep(j) =>
         /\ Len(tick.log) = j - 1
         /\ \A k \in 1..(j - 1) : tick.log[k][1] = "agent" /\ tick.log[k][2] = k
         /\ Behaviour(updateFatigue(ants[j], tick.dt)) = "explore" =>
              LET nbrs == getNeighbors(edges, ants[j].currentNodeId)
              IN  \A k \in 1..Len(nbrs) :
                    LET key == Key(ants[j].currentNodeId, nbrs[k], "EXPLORATION")
                    IN  key \in call.args =>
                          /\ call'.result[k] = ExploringWeight(ants[j], nbrs[k], colonyPher[key].level)
                          /\ RLess(ExploringWeight(ants[j], nbrs[k], RInt(0)), call'.result[k])]_vars

\* The second agent has just explored from a node from which the first agent,
\* updated before it in the same tick, had deposited on an edge
C27_Witness ==
  /\ call.op = "deposits"
  /\ Len(tick.log) = 2
  /\ tick.log[1] = <<"agent", 1, "updateMovement">>
  /\ tick.log[2] = <<"agent", 2, "explore">>
  /\ call.result # <<>>
  /\ \E n \in DOMAIN nodes : Key(ants[2].previousNodeId, n, "EXPLORATION") \in call.args

----------------------------------------------------------------------------
\* Claims about resting and returning

\* C28: for an agent in state RESTING that is not in transit, one tick of size
\* dt lowers its fatigue by 0.2 * dt, floored at 0, whether or not it carries.
C28_RestLowersFatigue ==
  [][\A i \in 1..Len(ants) :
       (/\ AgentStep(i)
        /\ ants[i].state = "RESTING"
        /\ ants[i].movementProgress = RInt(1))
         => LET lowered == RSub(ants[i].fatigue, RMul(Rat(1, 5), tick.dt))
            IN  ants'[i].fatigue = IF RLess(lowered, RInt(0)) THEN RInt(0) ELSE lowered]_vars

\* The neighbours of a node, in adjacency order, and their least distance
LeastDistance(nodeId) ==
  LET nbrs == getNeighbors(edges, nodeId)
  IN  CHOOSE d \in {nodes[nbrs[k]].distanceToNest : k \in 1..Len(nbrs)} :
        \A k \in 1..Len(nbrs) : d <= nodes[nbrs[k]].distanceToNest

\* The first neighbour in adjacency order at the least distance
FirstClosest(nodeId) ==
  LET nbrs == getNeighbors(edges, nodeId)
      k == CHOOSE x \in 1..Len(nbrs) :
             /\ nodes[nbrs[x]].distanceToNest = LeastDistance(nodeId)
             /\ \A y \in 1..(x - 1) : nodes[nbrs[y]].distanceToNest # LeastDistance(nodeId)
  IN  nbrs[k]

\* Agent i takes a RETURNING decision
ReturnStep(i) ==
  /\ AgentStep(i)
  /\ Behaviour(updateFatigue(ants[i], tick.dt)) = "returnToNest"

\* The position of the first visit of node n in a record of visits, 0 if none
FirstVisit(visits, n) ==
  IF \E k \in 1..Len(visits) : visits[k] = n
    THEN CHOOSE k \in 1..Len(visits) : visits[k] = n /\ \A j \in 1..(k - 1) : visits[j] # n
  ELSE 0

\* C29: after calculateDistances(nest), a RETURNING decision at a node of finite
\* distance d > 0 moves the agent to the first neighbour in adjacency order of
\* the smallest distanceToNest, which is d - 1, so that an agent that stays
\* RETURNING stands on the nest after exactly d moves; a neighbour is picked at
\* random only when no neighbour has a finite distance.
C29_ReturnByDistance ==
  /\ [][\A i \in 1..Len(ants) :
          (ReturnStep(i) /\ getNeighbors(edges, ants[i].currentNodeId) # <<>>) =>
            LET at == ants[i].currentNodeId
                d == nodes[at].distanceToNest
            IN  /\ (d > 0 /\ d < Infinity) =>
                     /\ ants'[i].currentNodeId = FirstClosest(at)
                     /\ nodes[ants'[i].currentNodeId].distanceToNest = d - 1
                /\ ants'[i].currentNodeId # FirstClosest(at) => LeastDistance(at) = Infinity]_vars
  /\ [](\A p \in {FirstVisit(call.args, 4)} :
          (p > 0 /\ ants[1].carrying # "") =>
             /\ Len(call.args) >= p + 1 => nodes[call.args[p + 1]].distanceToNest = 1
             /\ Len(call.args) >= p + 2 => call.args[p + 2] = NestId)

\* An agent that took the unit of the food source two hops from the nest has
\* moved to the second node of the source's adjacency list and on to the nest
C29_Witness ==
  /\ ants[1].carrying = "FOOD"
  /\ ants[1].currentNodeId = NestId
  /\ ants[1].previousNodeId = 3
  /\ ants[1].movementProgress = RInt(1)
  /\ FirstVisit(call.args, 4) = Len(call.args) - 2

\* Agent i takes a unit of a food source and switches to RETURNING
PickupStep(i) ==
  /\ AgentStep(i)
  /\ ants[i].state = "EXPLORING"
  /\ ants[i].carrying = ""
  /\ ants'[i].carrying = "FOOD"
  /\ ants'[i].state = "RETURNING"

\* C30: an EXPLORING agent takes a unit from a FOOD_SOURCE and switches to
\* RETURNING only on arrival, in a state where it has completed its transit to
\* that node (movementProgress = 1), never in the step in which it chooses the
\* node and starts to move.
C30_PickupOnArrival ==
  [][\A i \in 1..Len(ants) :
       PickupStep(i) =>
         /\ ants'[i].movementProgress = RInt(1)
         /\ ants'[i].currentNodeId = ants[i].currentNodeId
         /\ nodes[ants[i].currentNodeId].type = "FOOD_SOURCE"]_vars

----------------------------------------------------------------------------
(* Claims about the fields, the timed effects and the sessions *)

\* The step is a decay step of one of the two fields
IsDecay == tick'.n = tick.n + 1 /\ tick'.dt # RInt(0)

\* No entry stored in the field is below 0.01
NoneNegligible(field) == \A k \in DOMAIN field : ~RLess(field[k].level, Negligible)

\* C31: after every decay step every entry still stored in the decayed field
\* has a level of at least 0.01, and only a decay step removes an entry: a
\* deposit or a placement keeps every key that was stored.
C31_DecayAloneRemoves ==
  [][/\ IsDecay => /\ pheromones' = pheromones \/ NoneNegligible(pheromones')
                   /\ colonyPher' = colonyPher \/ NoneNegligible(colonyPher')
     /\ ~IsDecay => /\ DOMAIN pheromones \subseteq DOMAIN pheromones'
                    /\ DOMAIN colonyPher \subseteq DOMAIN colonyPher']_vars

\* A decay step of the server's field has removed the entry a player placed
\* last and has kept the entry of the other trail type
C31_Witness ==
  /\ call.op = "placePheromone"
  /\ call.args = <<1, 2, "EXPLORATION", RInt(-1)>>
  /\ tick.idx = 1
  /\ Key(1, 2, "EXPLORATION") \notin DOMAIN pheromones
  /\ Key(1, 2, "FOOD") \in DOMAIN pheromones
  /\ pheromones[Key(1, 2, "FOOD")].level = Rat(5, 2)

\* The step is a placement that was carried out
IsPlacement ==
  /\ tick'.n = tick.n + 1 /\ tick'.idx = 0
  /\ call'.op = "placePheromone" /\ call'.result # "rejected"

\* C32: a pheromone placed by a player's command on (from, to, type) is in
\* the field that the agents query: right after a successful placePheromone
\* the level returned by the colony's getPheromoneLevel(from, to, type) has
\* grown by the amount placed, up to the ceiling of 5.0.
C32_PlacementReachesAgents ==
  [][IsPlacement =>
       getPheromoneLevel(colonyPher', call'.args[1], call'.args[2], call'.args[3]) =
         RMin(RAdd(getPheromoneLevel(colonyPher, call'.args[1], call'.args[2], call'.args[3]),
                   call'.args[4]),
              MaxLevel)]_vars

\* The step is an update of the game loop over dt seconds
IsUpdate(dt) == call'.op = "update" /\ call'.args = <<dt>> /\ nodes' # nodes

\* A timer after dt seconds: lowered by dt and stopped at 0
RunDown(timer, dt) ==
  IF RLeq(RSub(timer, dt), RInt(0)) THEN RInt(0) ELSE RSub(timer, dt)

\* C33: the boosted and the disrupted effect are independent and timed: a
\* node's boosted (disrupted) flag is set exactly when its boostTimer
\* (disruptTimer) is above 0; an update runs each timer down by dt whatever
\* the other effect's flag and timer are; and under repeated updates a boosted
\* or disrupted node comes to have the flag cleared and the timer at 0.
C33_TimedEffects ==
  /\ [](\A n \in DOMAIN nodes :
          /\ nodes[n].boosted <=> RLess(RInt(0), nodes[n].boostTimer)
          /\ nodes[n].disrupted <=> RLess(RInt(0), nodes[n].disruptTimer))
  /\ [][\A dt \in EffectDeltaTimes : IsUpdate(dt) =>
          \A n \in DOMAIN nodes :
            /\ nodes'[n].boostTimer = RunDown(nodes[n].boostTimer, dt)
            /\ nodes'[n].disruptTimer = RunDown(nodes[n].disruptTimer, dt)]_vars
  /\ \A n \in DOMAIN DefaultNodes :
       /\ nodes[n].boosted ~> (~nodes[n].boosted /\ nodes[n].boostTimer = RInt(0))
       /\ nodes[n].disrupted ~> (~nodes[n].disrupted /\ nodes[n].disruptTimer = RInt(0))

\* A boost has run out on a node whose disruption, ordered later, still has
\* ten seconds to run
C33_Witness ==
  /\ ~nodes[2].boosted /\ nodes[2].boostTimer = RInt(0)
  /\ nodes[2].boostPlayerId # ""
  /\ nodes[2].disrupted /\ nodes[2].disruptTimer = RInt(10)

\* C34: after any sequence of addNode calls (with or without an identifier
\* supplied by the caller, one in use included) and addEdge calls, b is in the
\* neighbour list of a exactly when a is in the neighbour list of b, the lists
\* name existing nodes only, and a node once created keeps its attributes and
\* its edges.
C34_SymmetricAndKept ==
  /\ [](\A a \in DOMAIN edges :
          \A b \in Range(edges[a]) : b \in DOMAIN nodes /\ hasEdge(edges, b, a))
  /\ [][\A n \in DOMAIN nodes :
          /\ n \in DOMAIN nodes' /\ nodes'[n] = nodes[n]
          /\ Range(edges[n]) \subseteq Range(edges'[n])]_vars

----------------------------------------------------------------------------
(* Claims about the agents' places and loads *)

\* C35: every agent's currentNodeId is an existing node, its pair
\* (previousNodeId, currentNodeId) is an edge of the graph whenever
\* previousNodeId is not null, and every entry of the colony's field, which
\* only agents write, lies on an existing edge.
C35_AgentsOnEdges ==
  /\ \A i \in 1..Len(ants) :
       /\ ants[i].currentNodeId \in DOMAIN nodes
       /\ ants[i].previousNodeId # 0 =>
            hasEdge(edges, ants[i].previousNodeId, ants[i].currentNodeId)
  /\ \A k \in DOMAIN colonyPher : hasEdge(edges, k[1], k[2])

\* An agent has come back to the nest from a node it had moved to, and the
\* field holds an entry
C35_Witness ==
  /\ \E i \in 1..Len(ants) :
       /\ ants[i].currentNodeId = NestId
       /\ ants[i].previousNodeId \notin {0, NestId}
       /\ Len(ants[i].memory) >= 3
  /\ DOMAIN colonyPher # {}

\* The sum of the resources of the nodes ids
RECURSIVE SumResources(_, _)
SumResources(ns, ids) ==
  IF ids = {} THEN RInt(0)
  ELSE LET n == CHOOSE x \in ids : TRUE
       IN  RAdd(ns[n].resources, SumResources(ns, ids \ {n}))

\* The units in the system: on the nodes, on the agents, in the ledger
Units ==
  RAdd(SumResources(nodes, DOMAIN nodes),
       RInt(Cardinality({i \in 1..Len(ants) : ants[i].carrying # ""}) + resources.FOOD))

\* C36: the ticks of the colony conserve the resource units: the resources of
\* all nodes, the agents with a load and the ledger's total add up to the
\* initial value, and no node's resources are below 0.
C36_UnitsConserved ==
  /\ Units = SumResources(ColonyNodes, DOMAIN ColonyNodes)
  /\ \A n \in DOMAIN nodes : RLeq(RInt(0), nodes[n].resources)

\* The source's only unit is on one agent, and another agent has moved to the
\* emptied source and has taken nothing
C36_Witness ==
  /\ RLess(RInt(0), SumResources(ColonyNodes, DOMAIN ColonyNodes))
  /\ SumResources(nodes, DOMAIN nodes) = RInt(0)
  /\ \E i, j \in 1..Len(ants) :
       /\ ants[i].carrying = "FOOD"
       /\ ants[j].carrying = ""
       /\ nodes[ants[j].currentNodeId].type = "FOOD_SOURCE"

----------------------------------------------------------------------------
(* Claims about the players' energy, the sessions and the broadcasts *)

\* The energy a command costs: 5 * amount, 30, 40 or 50
CostOf(c) ==
  CASE c.op = "placePheromone" -> RMul(c.args[5], RInt(5))
    [] c.op = "boostNode"      -> BoostCost
    [] c.op = "disruptNode"    -> DisruptCost
    [] c.op = "expandNode"     -> ExpandCost

\* C37: after any sequence of commands (with any numeric pheromone amount) and
\* ticks every player's energy is between 0 and 100 inclusive, and a
\* successful command lowers the energy of the player who sent it by exactly
\* its cost.
C37_EnergyWithinBounds ==
  /\ [](\A p \in DOMAIN players :
          RLeq(RInt(0), players[p]) /\ RLeq(players[p], StartEnergy))
  /\ [][\A op \in PlayerCommands :
          (Command(op) /\ call'.result = "true") =>
             players'[Caller(call')] = RSub(players[Caller(call')], CostOf(call'))]_vars

\* C38: after any sequence of join_game and disconnect events, from sockets
\* that may join more than once, a disconnected socket is a player of no game,
\* and no game without players is in the registry.
C38_DisconnectedInNoGame ==
  /\ \A s \in DOMAIN sockets :
       ~sockets[s].connected => \A g \in DOMAIN games : s \notin games[g]
  /\ \A g \in DOMAIN games : games[g] # {}

\* The snapshot shows node n with the flags, timers, size and capacity of ns
ShowsNode(snapshot, ns, n) ==
  /\ n \in DOMAIN snapshot.nodes
  /\ \A f \in {"boosted", "boostTimer", "disrupted", "disruptTimer", "size", "capacity"} :
       snapshot.nodes[n][f] = ns[n][f]

\* The snapshot lists the entry k of the field with its level
ShowsEntry(snapshot, field, k) ==
  \E x \in snapshot.pheromones : x.key = k /\ x.level = field[k].level

\* C39: the game state broadcast right after a successful boost, disrupt or
\* expand command, or a successful placement, reflects the command: the
\* snapshot getGameState returns at that moment shows the node's new flag,
\* timer, size and capacity, or the new pheromone level.
C39_BroadcastShowsCommand ==
  [][\A op \in PlayerCommands :
       (Command(op) /\ call'.result = "true") =>
          IF op = "placePheromone"
            THEN ShowsEntry(gameState', pheromones',
                            Key(call'.args[2], call'.args[3], call'.args[4]))
          ELSE ShowsNode(gameState', nodes', Target(call'))]_vars

====
